---- MODULE Spec2Model ----
(***************************************************************************)
(* VirtualCom (vicom.py): the history store, the background receiver      *)
(* thread and the foreground session controller, as a state machine.      *)
(*                                                                         *)
(* Text is a sequence of one-character strings, so that strip(), hex       *)
(* parsing and prefix tests are computed character by character.           *)
(***************************************************************************)
EXTENDS Integers, Sequences, FiniteSets, TLC

\* ------------------------------------------------------------------ bounds
\* longest line handed to add_command_to_history in SpecHistory
MaxLen == 2
\* items the lists of the history file read at start-up hold in all
MaxFileItems == 2
\* entries the history store may hold in total before recording stops
MaxHist == 3
\* sessions (successful opens) one run of main() goes through
MaxSessions == 2
\* bytes the attached device sends in one run
MaxArrivals == 1
\* entries the lines sent in one run add to the history store
MaxSends == 1
\* entries a list of a store given to deduplicate_history holds at most
MaxDup == 3
\* bytes of one chunk the receiver reads at most
MaxChunk == 3
\* data bytes given to calculate_crc16 and to send_hex_data_with_crc at most
MaxData == 2
\* characters of a line typed to send_hex_data at most
MaxTyped == 3
\* entries of the list read_line_msvcrt navigates at most
MaxNav == 3
\* length of the edit buffer of read_line_msvcrt up to which a character is typed
MaxLine == 2
\* the largest number in a version
MaxVer == 1

\* ------------------------------------------------------------ text helpers
Min(a, b) == IF a < b THEN a ELSE b

Reverse(s) == [i \in 1..Len(s) |-> s[Len(s) + 1 - i]]

IsSpace(c) == c \in {" ", "\t"}

RECURSIVE LStrip(_)
LStrip(s) == IF s # <<>> /\ IsSpace(Head(s)) THEN LStrip(Tail(s)) ELSE s

RECURSIVE RStrip(_)
RStrip(s) ==
    IF s # <<>> /\ IsSpace(s[Len(s)]) THEN RStrip(SubSeq(s, 1, Len(s) - 1)) ELSE s

\* str.strip()
Strip(s) == RStrip(LStrip(s))

\* all sequences over S of length 0..n
RECURSIVE SeqsUpTo(_, _)
SeqsUpTo(S, n) ==
    IF n = 0 THEN {<<>>}
    ELSE LET shorter == SeqsUpTo(S, n - 1)
         IN  shorter \cup {Append(q, x) : q \in {r \in shorter : Len(r) = n - 1}, x \in S}

DecDigits == <<"0", "1", "2", "3", "4", "5", "6", "7", "8", "9">>

\* str(n) of a non-negative integer
RECURSIVE DecStr(_)
DecStr(n) ==
    IF n < 10 THEN <<DecDigits[n + 1]>>
    ELSE Append(DecStr(n \div 10), DecDigits[(n % 10) + 1])

\* ------------------------------------------------------------ history store
HISTORY_KEYS == <<"text", "hex", "hex_crc">>

KeySet == {HISTORY_KEYS[i] : i \in 1..Len(HISTORY_KEYS)}

empty_history == [key \in KeySet |-> <<>>]

RECURSIVE DedupScan(_, _, _, _)
\* the loop "for item in reversed(items)" with its seen set and result_rev
DedupScan(items, i, seen, result_rev) ==
    IF i = 0 THEN result_rev
    ELSE IF items[i] \in seen
         THEN DedupScan(items, i - 1, seen, result_rev)
         ELSE DedupScan(items, i - 1, seen \cup {items[i]}, Append(result_rev, items[i]))

deduplicate_list_keep_last(items) == Reverse(DedupScan(items, Len(items), {}, <<>>))

\* A JSON value of a list in the history file: a string or a number.
StrItem(s) == [t |-> "str", s |-> s, n |-> 0]
IntItem(n) == [t |-> "int", s |-> <<>>, n |-> n]

\* str(v)
StrOf(v) == IF v.t = "str" THEN v.s ELSE DecStr(v.n)

\* The history file: missing, unparsable, or a JSON document. A document is a
\* dict (top = "dict") or something else; under each key of a dict there is
\* a list, a value of another type, or nothing.
AbsentEntry == [t |-> "absent", items |-> <<>>]
NoDict == [key \in KeySet |-> AbsentEntry]
MissingFile == [kind |-> "missing", top |-> "other", d |-> NoDict]
CorruptFile == [kind |-> "corrupt", top |-> "other", d |-> NoDict]
JsonFile(top, d) == [kind |-> "json", top |-> top, d |-> d]

\* json.dumps(COMMAND_HISTORY) as a document
DumpHistory(h) ==
    JsonFile("dict",
        [key \in KeySet |->
            [t |-> "list", items |-> [i \in 1..Len(h[key]) |-> StrItem(h[key][i])]]])

NonBlank(s) == Strip(s) # <<>>

\* cleaned = [str(v) for v in value if str(v).strip()]
Cleaned(items) == SelectSeq([i \in 1..Len(items) |-> StrOf(items[i])], NonBlank)

\* load_command_history that returns the parsed dict with the keys it has
load_without_normalizing(file) ==
    IF file.kind # "json" \/ file.top # "dict" THEN empty_history
    ELSE [key \in {k \in KeySet : file.d[k].t = "list"} |->
            deduplicate_list_keep_last(Cleaned(file.d[key].items))]

load_command_history(file) ==
    IF file.kind = "missing" THEN empty_history
    ELSE IF file.kind = "corrupt" THEN empty_history
    ELSE IF file.top # "dict" THEN empty_history
    ELSE [key \in KeySet |->
            IF file.d[key].t = "list"
            THEN deduplicate_list_keep_last(Cleaned(file.d[key].items))
            ELSE <<>>]

Remaining(history, key, value) ==
    SelectSeq(history[key], LAMBDA cmd : cmd # value)

\* add_command_to_history that leaves a prior occurrence where it is
add_append_only(history, history_key, command) ==
    LET value == Strip(command)
    IN  IF value = <<>> \/ history_key \notin DOMAIN history THEN history
        ELSE [history EXCEPT ![history_key] = Append(@, value)]

\* add_command_to_history that tests the trimmed line but stores the line as typed
add_untrimmed(history, history_key, command) ==
    IF Strip(command) = <<>> \/ history_key \notin DOMAIN history THEN history
    ELSE [history EXCEPT ![history_key] =
             Append(Remaining(history, history_key, command), command)]

\* the store after add_command_to_history(history_key, command)
add_command_to_history(history, history_key, command) ==
    LET value == Strip(command)
    IN  IF value = <<>> \/ history_key \notin DOMAIN history THEN history
        ELSE [history EXCEPT ![history_key] =
                 Append(Remaining(history, history_key, value), value)]

\* whether add_command_to_history reaches save_command_history()
AddSaves(history, history_key, command) ==
    Strip(command) # <<>> /\ history_key \in DOMAIN history

RECURSIVE FlattenFrom(_, _)
FlattenFrom(history, k) ==
    IF k > Len(HISTORY_KEYS) THEN <<>>
    ELSE [i \in 1..Len(history[HISTORY_KEYS[k]]) |->
              <<HISTORY_KEYS[k], history[HISTORY_KEYS[k]][i]>>]
         \o FlattenFrom(history, k + 1)

\* mode_key is a key of HISTORY_KEYS, or "all" for None
flatten_history(history, mode_key) ==
    IF mode_key \in KeySet
    THEN [i \in 1..Len(history[mode_key]) |-> <<mode_key, history[mode_key][i]>>]
    ELSE FlattenFrom(history, 1)

TargetKeys(mode_key) == IF mode_key \in KeySet THEN {mode_key} ELSE KeySet

RECURSIVE KeepFirst(_, _)
KeepFirst(list, seen) ==
    IF list = <<>> THEN <<>>
    ELSE IF Head(list) \in seen THEN KeepFirst(Tail(list), seen)
    ELSE <<Head(list)>> \o KeepFirst(Tail(list), seen \cup {Head(list)})

\* deduplicate_history that scans forward and keeps the first occurrence
dedupe_keep_first(history, mode_key) ==
    [key \in KeySet |->
        IF key \in TargetKeys(mode_key) THEN KeepFirst(history[key], {}) ELSE history[key]]

deduplicate_history(history, mode_key) ==
    [key \in KeySet |->
        IF key \in TargetKeys(mode_key)
        THEN Reverse(DedupScan(history[key], Len(history[key]), {}, <<>>))
        ELSE history[key]]

\* clear_history that takes no notice of mode_key
clear_every_list(history, mode_key) == [key \in KeySet |-> <<>>]

clear_history(history, mode_key) ==
    [key \in KeySet |-> IF key \in TargetKeys(mode_key) THEN <<>> ELSE history[key]]

\* list.pop() in the place of list.remove(value): the last one goes
RemoveTail(list, value) ==
    IF list = <<>> THEN <<>> ELSE SubSeq(list, 1, Len(list) - 1)

RECURSIVE RemoveFirst(_, _)
\* list.remove(value): the first occurrence goes
RemoveFirst(list, value) ==
    IF list = <<>> THEN <<>>
    ELSE IF Head(list) = value THEN Tail(list)
    ELSE <<Head(list)>> \o RemoveFirst(Tail(list), value)

TotalEntries(history) == Len(flatten_history(history, "all"))

\* ------------------------------------------------------------- frame codec
POLYNOMIAL == 40961

RECURSIVE BitXor(_, _)
\* a ^ b on non-negative integers
BitXor(a, b) ==
    IF a = 0 THEN b
    ELSE IF b = 0 THEN a
    ELSE ((a + b) % 2) + 2 * BitXor(a \div 2, b \div 2)

RECURSIVE CrcShift(_, _)
\* the inner loop "for _ in range(8)": k shifts left to do
CrcShift(crc, k) ==
    IF k = 0 THEN crc
    ELSE IF crc % 2 = 1
         THEN CrcShift(BitXor(crc \div 2, POLYNOMIAL), k - 1)
         ELSE CrcShift(crc \div 2, k - 1)

RECURSIVE CrcFrom(_, _, _)
CrcFrom(crc, data, i) ==
    IF i > Len(data) THEN crc
    ELSE CrcFrom(CrcShift(BitXor(crc, data[i]), 8), data, i + 1)

\* calculate_crc16 that starts from 0
crc16_zero_seed(data) == CrcFrom(0, data, 1)

calculate_crc16(data) == CrcFrom(65535, data, 1)

HexDigitChars ==
    <<"0", "1", "2", "3", "4", "5", "6", "7", "8", "9",
      "A", "B", "C", "D", "E", "F", "a", "b", "c", "d", "e", "f">>

IsHexDigit(c) == \E i \in 1..Len(HexDigitChars) : HexDigitChars[i] = c

\* value of one hex digit: the table holds 0-9, A-F and then a-f
HexVal(c) ==
    LET i == CHOOSE j \in 1..Len(HexDigitChars) : HexDigitChars[j] = c
    IN  IF i <= 16 THEN i - 1 ELSE i - 7

\* hex_string.replace(" ", "")
NoSpaces(s) == SelectSeq(s, LAMBDA c : c # " ")

\* bytes.fromhex on a string of hex digits of even length
FromHex(h) == [i \in 1..(Len(h) \div 2) |-> 16 * HexVal(h[2 * i - 1]) + HexVal(h[2 * i])]

\* HexAccepted without the ValueError of bytes.fromhex on an odd number of digits
HexAcceptedOdd(hex_string) ==
    \A i \in 1..Len(NoSpaces(hex_string)) : IsHexDigit(NoSpaces(hex_string)[i])

\* what send_hex_data accepts: only hex digits once the spaces are gone, and
\* bytes.fromhex does not raise ValueError (an even number of digits)
HexAccepted(hex_string) ==
    LET h == NoSpaces(hex_string)
    IN  (\A i \in 1..Len(h) : IsHexDigit(h[i])) /\ Len(h) % 2 = 0

\* the bytes send_hex_data writes
send_hex_data(hex_string) == FromHex(NoSpaces(hex_string))

\* send_hex_data_with_crc that appends the high byte of the CRC first
send_hex_crc_high_first(hex_string) ==
    LET data == FromHex(NoSpaces(hex_string))
        crc  == CrcFrom(65535, data, 1)
    IN  data \o <<(crc \div 256) % 256, crc % 256>>

\* the bytes send_hex_data_with_crc writes: data, CRC low byte, CRC high byte
send_hex_data_with_crc(hex_string) ==
    LET data == FromHex(NoSpaces(hex_string))
        crc  == calculate_crc16(data)
    IN  data \o <<crc % 256, (crc \div 256) % 256>>

\* printable ASCII, code 32 first (the double quote, the backslash and the backtick are
\* held by name: no one-character text of the model is either)
AsciiPrintable ==
    <<" ", "!", "dquote", "#", "$", "%", "&", "'", "(", ")", "*", "+", ",", "-", ".", "/",
      "0", "1", "2", "3", "4", "5", "6", "7", "8", "9", ":", ";", "<", "=", ">", "?",
      "@", "A", "B", "C", "D", "E", "F", "G", "H", "I", "J", "K", "L", "M", "N", "O",
      "P", "Q", "R", "S", "T", "U", "V", "W", "X", "Y", "Z", "[", "backslash", "]", "^", "_",
      "backtick", "a", "b", "c", "d", "e", "f", "g", "h", "i", "j", "k", "l", "m", "n", "o",
      "p", "q", "r", "s", "t", "u", "v", "w", "x", "y", "z", "{", "|", "}", "~">>

Ord(c) == 31 + (CHOOSE j \in 1..Len(AsciiPrintable) : AsciiPrintable[j] = c)

\* the bytes send_text_message writes: message.encode('utf-8') of ASCII text
send_text_message(message) == [i \in 1..Len(message) |-> Ord(message[i])]

\* str.lower() of one ASCII character
LowerChar(c) ==
    IF \E j \in 34..59 : AsciiPrintable[j] = c
    THEN AsciiPrintable[(CHOOSE j \in 34..59 : AsciiPrintable[j] = c) + 32]
    ELSE c

Lower(s) == [i \in 1..Len(s) |-> LowerChar(s[i])]

StartsWith(s, prefix) ==
    Len(prefix) <= Len(s) /\ SubSeq(s, 1, Len(prefix)) = prefix

\* --------------------------------------------------------- service commands
CmdHelp == <<"h", "e", "l", "p">>
CmdInit == <<"i", "n", "i", "t">>
CmdDoctor == <<"d", "o", "c", "t", "o", "r">>
CmdHistory == <<"h", "i", "s", "t", "o", "r", "y">>

known_commands == <<CmdHelp, CmdInit, CmdDoctor, CmdHistory>>

KnownSet == {known_commands[i] : i \in 1..Len(known_commands)}

\* aliases.get(command, command)
Unalias(command) ==
    IF Len(command) > 1 /\ Head(command) = "/" /\ Tail(command) \in KnownSet
    THEN Tail(command)
    ELSE command

\* handle_runtime_command that completes from the first character alone
handle_runtime_command_by_initial(raw_value) ==
    LET command == Unalias(Lower(Strip(raw_value)))
        prefix_matches ==
            {cmd \in KnownSet : command # <<>> /\ StartsWith(cmd, <<Head(command)>>)}
    IN  IF command \in KnownSet THEN command
        ELSE IF Cardinality(prefix_matches) = 1
             THEN CHOOSE cmd \in prefix_matches : TRUE
             ELSE <<>>

\* handle_runtime_command that takes the first of several prefix matches
handle_runtime_command_first_match(raw_value) ==
    LET command == Unalias(Lower(Strip(raw_value)))
        matching == SelectSeq(known_commands, LAMBDA cmd : StartsWith(cmd, command))
    IN  IF command \in KnownSet THEN command
        ELSE IF matching # <<>> THEN Head(matching)
        ELSE <<>>

\* The service command handle_runtime_command executes for raw_value, or <<>>
\* when it returns False.
handle_runtime_command(raw_value) ==
    LET command == Unalias(Lower(Strip(raw_value)))
        prefix_matches == {cmd \in KnownSet : StartsWith(cmd, command)}
    IN  IF command \in KnownSet THEN command
        ELSE IF Cardinality(prefix_matches) = 1
             THEN CHOOSE cmd \in prefix_matches : TRUE
             ELSE <<>>

\* --------------------------------------------------------------- responder
\* bytes([...]) raises ValueError when a value is outside range(256); no byte
\* string holds -1
ValueError == <<-1>>

\* process_request without the rule for the request 41
process_request_without_41(request) ==
    IF request = <<1, 2, 3>> THEN <<1, 12>>
    ELSE IF request = <<170, 187, 204>> THEN <<221, 238>>
    ELSE IF Len(request) = 3 /\ request[1] = 1
         THEN IF request[2] + 10 < 256 THEN <<request[1], request[2] + 10>> ELSE ValueError
    ELSE <<>>

\* process_request: the response bytes, <<>> for None, or ValueError
process_request(request) ==
    IF request = <<1, 2, 3>> THEN <<1, 12>>
    ELSE IF request = <<65>> THEN <<32, 0>>
    ELSE IF request = <<170, 187, 204>> THEN <<221, 238>>
    ELSE IF Len(request) = 3 /\ request[1] = 1
         THEN IF request[2] + 10 < 256 THEN <<request[1], request[2] + 10>> ELSE ValueError
    ELSE <<>>

\* ------------------------------------------------------------------- state
\* One session is followed at a time: main() holds one ser, one
\* processing_event and one receiver thread, and makes new ones on each pass
\* of its outer loop. A port is opened again only once the thread of the
\* session before has ended (see OpenPort).
VARIABLES
    COMMAND_HISTORY,        \* the module-level history store
    HISTORY_FILE,           \* content of command_history.json
    hist_op,                \* the last operation asked of the store on its own
    os_name,                \* "nt" or "posix"
    probe,                  \* a function of the program applied on its own
    fpc,                    \* where the foreground (main) is
    opened,                 \* sessions opened so far
    exc,                    \* exception travelling through main's finally: "none" or "fault"
    send_mode,              \* history key of the send loop main is in, or "none"
    message,                \* the line the send loop is transmitting
    fg_data,                \* bytes of the foreground ser.write() in progress
    ser,                    \* "none" (ser = None), "open" or "closed" (ser.is_open)
    processing_event,       \* the threading.Event of the session
    device,                 \* "ok", or "gone" once the device has disappeared
    inbuf,                  \* the driver's input buffer
    arrived,                \* bytes the device has sent so far
    rpc,                    \* where receive_data is
    is_processing_allowed,  \* receive_data's local
    request,                \* the chunk receive_data read
    response,               \* process_request(request)
    close_calls,            \* calls of ser.close() in this session
    closed_msgs,            \* "port closed" lines printed in this session
    warnings,               \* warnings receive_data printed (0, 1, or 2 for more)
    join_warned             \* main reported that the thread did not finish

histVars == <<COMMAND_HISTORY, HISTORY_FILE, hist_op>>

fgVars == <<os_name, probe, fpc, opened, exc, send_mode, message, fg_data>>

portVars == <<ser, processing_event, device, inbuf, arrived, close_calls, closed_msgs,
              join_warned>>

rxVars == <<rpc, is_processing_allowed, request, response, warnings>>

vars == <<histVars, fgVars, portVars, rxVars>>

\* ------------------------------------------------- history store on its own
\* What a list of the history file may hold.
FileItems == {StrItem(<<"1">>), IntItem(1), StrItem(<<" ">>), StrItem(<<" ", "1">>)}

FileEntries ==
    {AbsentEntry, [t |-> "other", items |-> <<>>]}
        \cup {[t |-> "list", items |-> q] : q \in SeqsUpTo(FileItems, MaxFileItems)}

FileItemCount(d) ==
    Len(d[HISTORY_KEYS[1]].items) + Len(d[HISTORY_KEYS[2]].items)
        + Len(d[HISTORY_KEYS[3]].items)

\* The files the program may find at start-up.
HistoryFiles ==
    {MissingFile, CorruptFile, JsonFile("other", NoDict)}
        \cup {JsonFile("dict", d) :
                d \in {e \in [KeySet -> FileEntries] : FileItemCount(e) <= MaxFileItems}}

\* The lines the operator may send.
CommandChars == {"1", " "}

Commands == SeqsUpTo(CommandChars, MaxLen)

NoOp == [op |-> "load", key |-> "all", arg |-> <<>>, idx |-> 0, done |-> TRUE]

\* no function is being applied on its own
NoProbe == [fn |-> "none", arg |-> <<>>, out |-> <<>>, again |-> <<>>, times |-> 0]

InitSession ==
    /\ os_name \in {"nt", "posix"}
    /\ fpc = "SelectingPort"
    /\ opened = 0
    /\ exc = "none"
    /\ send_mode = "none"
    /\ message = <<>>
    /\ fg_data = <<>>
    /\ ser = "none"
    /\ processing_event = FALSE
    /\ device = "ok"
    /\ inbuf = <<>>
    /\ arrived = 0
    /\ rpc = "none"
    /\ is_processing_allowed = FALSE
    /\ request = <<>>
    /\ response = <<>>
    /\ close_calls = 0
    /\ closed_msgs = 0
    /\ warnings = 0
    /\ join_warned = FALSE

\* COMMAND_HISTORY = load_command_history() at import
InitHistory(files) ==
    /\ HISTORY_FILE \in files
    /\ COMMAND_HISTORY = load_command_history(HISTORY_FILE)
    /\ hist_op = NoOp

\* save_command_history()
save_command_history(history) == DumpHistory(history)

\* add_command_to_history that files every line under "text"
RecordUnderText(history_key, command) ==
    /\ COMMAND_HISTORY' = add_command_to_history(COMMAND_HISTORY, "text", command)
    /\ HISTORY_FILE' = IF AddSaves(COMMAND_HISTORY, "text", command)
                       THEN save_command_history(COMMAND_HISTORY')
                       ELSE HISTORY_FILE

\* add_command_to_history(history_key, command), with its save
Record(history_key, command) ==
    /\ COMMAND_HISTORY' = add_command_to_history(COMMAND_HISTORY, history_key, command)
    /\ HISTORY_FILE' = IF AddSaves(COMMAND_HISTORY, history_key, command)
                       THEN save_command_history(COMMAND_HISTORY')
                       ELSE HISTORY_FILE

\* DeleteEntry without the range test: Python counts an index below 0 from the end
DeleteEntryUnchecked(history, numeric, idx) ==
    LET entries == flatten_history(history, "all")
        at == IF idx < 1 THEN Len(entries) + idx ELSE idx
    IN  IF entries = <<>> \/ ~numeric \/ at < 1 \/ at > Len(entries) THEN history
        ELSE [history EXCEPT ![entries[at][1]] = RemoveFirst(@, entries[at][2])]

\* The store after "Удалить запись" with the number idx typed in; numeric is
\* FALSE when int() raises ValueError.
DeleteEntry(history, numeric, idx) ==
    LET entries == flatten_history(history, "all")
    IN  IF entries = <<>> \/ ~numeric \/ idx < 1 \/ idx > Len(entries) THEN history
        ELSE [history EXCEPT ![entries[idx][1]] = RemoveFirst(@, entries[idx][2])]

DeleteSaves(history, numeric, idx) ==
    numeric /\ idx >= 1 /\ idx <= TotalEntries(history)

Delete(numeric, idx) ==
    /\ COMMAND_HISTORY' = DeleteEntry(COMMAND_HISTORY, numeric, idx)
    /\ HISTORY_FILE' = IF DeleteSaves(COMMAND_HISTORY, numeric, idx)
                       THEN save_command_history(COMMAND_HISTORY')
                       ELSE HISTORY_FILE

Dedupe(mode_key) ==
    /\ COMMAND_HISTORY' = deduplicate_history(COMMAND_HISTORY, mode_key)
    /\ HISTORY_FILE' = save_command_history(COMMAND_HISTORY')

\* clear_history without its save_command_history()
ClearUnsaved(mode_key) ==
    /\ COMMAND_HISTORY' = clear_history(COMMAND_HISTORY, mode_key)
    /\ UNCHANGED HISTORY_FILE

Clear(mode_key) ==
    /\ COMMAND_HISTORY' = clear_history(COMMAND_HISTORY, mode_key)
    /\ HISTORY_FILE' = save_command_history(COMMAND_HISTORY')

\* room for one more entry, or the value is in the list already
MayRecord(history_key, command) ==
    \/ TotalEntries(COMMAND_HISTORY) < MaxHist
    \/ \E i \in 1..Len(COMMAND_HISTORY[history_key]) :
           COMMAND_HISTORY[history_key][i] = Strip(command)

\* hist_op after an operation asked for directly
Noted(op, key, arg, idx, done) ==
    hist_op' = [op |-> op, key |-> key, arg |-> arg, idx |-> idx, done |-> done]

HRecord ==
    /\ \E history_key \in KeySet, command \in Commands :
           /\ MayRecord(history_key, command)
           /\ Record(history_key, command)
           /\ Noted("record", history_key, command, 0,
                    AddSaves(COMMAND_HISTORY, history_key, command))
    /\ UNCHANGED <<fgVars, portVars, rxVars>>

HDelete ==
    /\ \E numeric \in BOOLEAN, idx \in 0..(TotalEntries(COMMAND_HISTORY) + 1) :
           /\ Delete(numeric, idx)
           /\ Noted("delete", "all", <<>>, IF numeric THEN idx ELSE 0,
                    DeleteSaves(COMMAND_HISTORY, numeric, idx))
    /\ UNCHANGED <<fgVars, portVars, rxVars>>

HDedupe ==
    /\ \E mode_key \in KeySet \cup {"all"} :
           Dedupe(mode_key) /\ Noted("dedupe", mode_key, <<>>, 0, TRUE)
    /\ UNCHANGED <<fgVars, portVars, rxVars>>

HClear ==
    /\ \E mode_key \in KeySet \cup {"all"} :
           Clear(mode_key) /\ Noted("clear", mode_key, <<>>, 0, TRUE)
    /\ UNCHANGED <<fgVars, portVars, rxVars>>

\* ---------------------------------------------------------------- the port
\* The bytes the attached device may send.
DeviceBytes == {65}

\* the values of the buffered bytes, in order
Bytes(q) == [i \in 1..Len(q) |-> q[i].b]

\* The device sends one byte while the port is open; the driver buffers it
\* whether or not receiving is enabled. The byte carries its arrival number
\* and whether receiving was paused when it arrived.
Arrive ==
    /\ ser = "open"
    /\ device = "ok"
    /\ arrived < MaxArrivals
    /\ \E b \in DeviceBytes :
           inbuf' = Append(inbuf, [b |-> b, id |-> arrived + 1, paused |-> ~processing_event])
    /\ arrived' = arrived + 1
    /\ UNCHANGED <<histVars, fgVars, rxVars, ser, processing_event, device, close_calls,
                   closed_msgs, join_warned>>

\* The device disappears (cable pulled): from now on the calls on the port fail.
DeviceGone ==
    /\ ser = "open"
    /\ device = "ok"
    /\ device' = "gone"
    /\ UNCHANGED <<histVars, fgVars, rxVars, ser, processing_event, inbuf, arrived,
                   close_calls, closed_msgs, join_warned>>

\* The exceptions a call on the port can raise: on a closed port
\* PortNotOpenError (a SerialException), EBADF or, with the descriptor gone
\* under the call, another exception; on a vanished device a SerialException or
\* an OSError other than EBADF.
PortErrors ==
    IF ser # "open" THEN {"serial", "ebadf", "other"}
    ELSE IF device = "gone" THEN {"serial", "oserror"}
    ELSE {}

\* ------------------------------------------------------------ receive_data
Alive == rpc \notin {"none", "done", "killed"}

\* receive_data's locals are dead at the loop head
RxLocalsReset ==
    /\ is_processing_allowed' = FALSE
    /\ request' = <<>>
    /\ response' = <<>>

\* the three except clauses of receive_data
RxExcept(kind) ==
    /\ rpc' = IF kind \in {"serial", "ebadf"} THEN "done" ELSE "errsleep"
    /\ warnings' = IF kind = "ebadf" THEN warnings ELSE Min(warnings + 1, 2)
    /\ RxLocalsReset

\* receive_data with "while True" for its loop condition
RxLoopForever ==
    /\ rpc = "loop"
    /\ rpc' = "wait"
    /\ UNCHANGED <<histVars, fgVars, portVars, is_processing_allowed, request, response,
                   warnings>>

\* while ser.is_open
RxLoop ==
    /\ rpc = "loop"
    /\ rpc' = IF ser = "open" THEN "wait" ELSE "done"
    /\ UNCHANGED <<histVars, fgVars, portVars, is_processing_allowed, request, response,
                   warnings>>

\* is_processing_allowed = processing_event.wait(timeout=0.1)
RxWait ==
    /\ rpc = "wait"
    /\ is_processing_allowed' = processing_event
    /\ rpc' = "check"
    /\ UNCHANGED <<histVars, fgVars, portVars, request, response, warnings>>

\* if not is_processing_allowed or not ser.in_waiting
RxCheck ==
    /\ rpc = "check"
    /\ IF ~is_processing_allowed
       THEN /\ rpc' = "sleep"
            /\ UNCHANGED <<is_processing_allowed, request, response, warnings>>
       ELSE IF PortErrors # {}
       THEN \E kind \in PortErrors : RxExcept(kind)
       ELSE /\ rpc' = IF inbuf = <<>> THEN "sleep" ELSE "read"
            /\ UNCHANGED <<is_processing_allowed, request, response, warnings>>
    /\ UNCHANGED <<histVars, fgVars, portVars>>

\* time.sleep(0.05); continue
RxSleep ==
    /\ rpc = "sleep"
    /\ rpc' = "loop"
    /\ RxLocalsReset
    /\ UNCHANGED <<histVars, fgVars, portVars, warnings>>

\* request = ser.read(ser.in_waiting); response = process_request(request)
RxRead ==
    /\ rpc = "read"
    /\ IF PortErrors # {}
       THEN /\ \E kind \in PortErrors : RxExcept(kind)
            /\ UNCHANGED inbuf
       ELSE IF process_request(Bytes(inbuf)) = ValueError
       THEN /\ inbuf' = <<>>
            /\ RxExcept("other")
       ELSE /\ request' = inbuf
            /\ inbuf' = <<>>
            /\ response' = process_request(Bytes(inbuf))
            /\ rpc' = IF process_request(Bytes(inbuf)) # <<>> THEN "write" ELSE "loop"
            /\ UNCHANGED <<is_processing_allowed, warnings>>
    /\ UNCHANGED <<histVars, fgVars, ser, processing_event, device, arrived, close_calls,
                   closed_msgs, join_warned>>

\* ser.write(response) is entered
RxWriteBegin ==
    /\ rpc = "write"
    /\ IF PortErrors # {}
       THEN \E kind \in PortErrors : RxExcept(kind)
       ELSE /\ rpc' = "writing"
            /\ UNCHANGED <<is_processing_allowed, request, response, warnings>>
    /\ UNCHANGED <<histVars, fgVars, portVars>>

\* ser.write(response) returns, or fails when the port went away under it
RxWriteEnd ==
    /\ rpc = "writing"
    /\ \E outcome \in {"written"} \cup PortErrors :
           IF outcome = "written"
           THEN /\ rpc' = "loop"
                /\ RxLocalsReset
                /\ UNCHANGED warnings
           ELSE RxExcept(outcome)
    /\ UNCHANGED <<histVars, fgVars, portVars>>

\* time.sleep(0.1) at the end of an except clause that does not break
RxErrSleep ==
    /\ rpc = "errsleep"
    /\ rpc' = "loop"
    /\ UNCHANGED <<histVars, fgVars, portVars, is_processing_allowed, request, response,
                   warnings>>

Receiver ==
    \/ RxLoop \/ RxWait \/ RxCheck \/ RxSleep
    \/ RxRead \/ RxWriteBegin \/ RxWriteEnd \/ RxErrSleep

\* ---------------------------------------------------------- main: helpers
rxLocals == <<is_processing_allowed, request, response, warnings>>

\* the receiver thread is a daemon: it ends with the process
Killed == IF Alive THEN "killed" ELSE rpc

\* main goes on at pc; at "Terminated" the process is gone
Goto(pc) ==
    /\ fpc' = pc
    /\ rpc' = IF pc = "Terminated" THEN Killed ELSE rpc

\* safe_close_serial without its "if ser.is_open" test
safe_close_unchecked(named) ==
    IF ser = "none"
    THEN UNCHANGED <<ser, close_calls, closed_msgs, inbuf>>
    ELSE /\ ser' = "closed"
         /\ close_calls' = Min(close_calls + 1, 2)
         /\ closed_msgs' = IF named THEN Min(closed_msgs + 1, 2) ELSE closed_msgs
         /\ inbuf' = <<>>

\* safe_close_serial(ser, port_name); named tells whether port_name was
\* passed. On a vanished device ser.close() may raise after the handle is
\* released: the exception is swallowed and the "closed" line is not printed.
safe_close_serial(named) ==
    IF ser = "none"
    THEN UNCHANGED <<ser, close_calls, closed_msgs, inbuf>>
    ELSE IF ser = "open"
    THEN \E raised \in (IF device = "gone" THEN BOOLEAN ELSE {FALSE}) :
             /\ ser' = "closed"
             /\ close_calls' = Min(close_calls + 1, 2)
             /\ closed_msgs' = IF named /\ ~raised THEN Min(closed_msgs + 1, 2)
                               ELSE closed_msgs
             /\ inbuf' = <<>>
    ELSE UNCHANGED <<ser, close_calls, closed_msgs, inbuf>>

\* ensure_receive_active that also empties the input buffer, as menu 5 does
ensure_receive_active_reset ==
    /\ processing_event' = TRUE
    /\ inbuf' = <<>>

\* ensure_receive_active that leaves the Event as it finds it
ensure_receive_active_skipped == UNCHANGED <<processing_event, inbuf>>

\* ensure_receive_active(processing_event)
ensure_receive_active ==
    /\ processing_event' = TRUE
    /\ UNCHANGED inbuf

\* receiver_thread.join() without a timeout returns only when the thread has ended
JoinBlocks == ~Alive

\* receiver_thread.join(timeout=1.0) returns when the thread has ended or
\* the timeout has passed, whichever comes first
JoinReturns == TRUE

\* ------------------------------------------------- main: before the session
SelectPort ==
    /\ fpc = "SelectingPort"
    /\ \E outcome \in {"chosen", "stale", "none", "ctrlc"} :
           Goto(CASE outcome = "chosen" -> "ConfiguringSettings"
                  [] outcome = "stale" -> "SelectingPort"
                  [] outcome = "none" -> "Terminated"
                  [] outcome = "ctrlc" -> "kb_set")
    /\ UNCHANGED <<histVars, portVars, rxLocals, os_name, probe, opened, exc, send_mode,
                   message, fg_data>>

ConfigureSettings ==
    /\ fpc = "ConfiguringSettings"
    /\ \E outcome \in {"defaults", "manual", "ctrlc"} :
           Goto(IF outcome = "ctrlc" THEN "kb_set" ELSE "Opening")
    /\ UNCHANGED <<histVars, portVars, rxLocals, os_name, probe, opened, exc, send_mode,
                   message, fg_data>>

\* serial.Serial(...); on success processing_event.set() and the thread
\* starts. The operator has the port open again only after the thread of the
\* session before has ended.
\* The texts of the SerialException serial.Serial(...) may raise, each named
\* by the part of it that tells it from the others.
PhantomTexts ==
    {"A device which does not exist was specified", "WinError 433", "OSError(22"}

OpenErrors == PhantomTexts \cup {"PermissionError(13", "Resource busy"}

\* is_phantom_port_error(error_text)
is_phantom_port_error(error_text) == error_text \in PhantomTexts

\* serial.Serial(...) where every failed open asks the operator
OpenPortAlwaysAsks(outcome) ==
    /\ fpc = "Opening"
    /\ outcome # "ok"
    /\ Goto("AskRetry")
    /\ UNCHANGED <<opened, portVars, rxLocals>>
    /\ UNCHANGED <<histVars, os_name, probe, exc, send_mode, message, fg_data, arrived>>

\* serial.Serial(...) with the given outcome: "ok" or the text of the error
OpenPortOn(outcome) ==
    /\ fpc = "Opening"
    /\ outcome = "ok" => (opened < MaxSessions /\ ~Alive)
    /\ IF outcome = "ok"
       THEN /\ opened' = opened + 1
            /\ ser' = "open"
            /\ processing_event' = TRUE
            /\ device' = "ok"
            /\ inbuf' = <<>>
            /\ close_calls' = 0
            /\ closed_msgs' = 0
            /\ join_warned' = FALSE
            /\ warnings' = 0
            /\ RxLocalsReset
            /\ rpc' = "loop"
            /\ fpc' = "MenuIdle"
       ELSE /\ Goto(IF is_phantom_port_error(outcome) THEN "SelectingPort" ELSE "AskRetry")
            /\ UNCHANGED <<opened, portVars, rxLocals>>
    /\ UNCHANGED <<histVars, os_name, probe, exc, send_mode, message, fg_data, arrived>>

OpenPort == \E outcome \in {"ok"} \cup OpenErrors : OpenPortOn(outcome)

\* ask_retry_port_selection()
AskRetryPortSelection ==
    /\ fpc = "AskRetry"
    /\ \E answer \in {"y", "n", "ctrlc"} :
           Goto(CASE answer = "y" -> "SelectingPort"
                  [] answer = "n" -> "Terminated"
                  [] answer = "ctrlc" -> "kb_set")
    /\ UNCHANGED <<histVars, portVars, rxLocals, os_name, probe, opened, exc, send_mode,
                   message, fg_data>>

\* ------------------------------------------------------- main: the top menu
MenuKeys == {"1", "2", "3", "4", "5", "6", "7", "8", "esc", "escseq", "ctrlc", "x"}

ModeOfKey(key) == IF key = "1" THEN "text" ELSE IF key = "2" THEN "hex" ELSE "hex_crc"

\* on nt, no key is waiting: only the thread's liveness is looked at
MenuPoll ==
    /\ fpc = "MenuIdle"
    /\ os_name = "nt"
    /\ Goto(IF Alive THEN "MenuIdle" ELSE "fin_set")
    /\ UNCHANGED <<histVars, portVars, rxLocals, os_name, probe, opened, exc, send_mode,
                   message, fg_data>>

\* a top menu where Esc, besides pausing, leaves the menu loop
MenuEscLeaves(key) ==
    /\ fpc = "MenuIdle"
    /\ processing_event' = IF key \in {"esc", "4"} THEN FALSE ELSE processing_event
    /\ Goto(IF key = "esc" THEN "fin_set" ELSE "menu_check")
    /\ UNCHANGED <<histVars, rxLocals, os_name, probe, opened, exc, message, fg_data, ser, device,
                   arrived, close_calls, closed_msgs, join_warned, inbuf, send_mode>>

\* what kbhit() may answer 10 ms after getch() gave ESC as the first byte of
\* an arrow or function key on posix: select() on stdin sees the bytes that
\* follow only if they are in the terminal's queue and readable there; bytes
\* that sys.stdin.read(1) took into its buffer together with the ESC, bytes
\* held back by the line mode getch() restores, and bytes that come later are
\* not seen
KbhitAfterEsc == BOOLEAN

\* the key at the top menu, up to the point where its handler blocks or ends;
\* "escseq" is an arrow or function key: on posix ESC and further bytes, on nt
\* a byte that does not decode and a second byte
MenuKeyOn(key) ==
    /\ fpc = "MenuIdle"
    /\ \E kbhit \in (IF key = "escseq" /\ os_name = "posix" THEN KbhitAfterEsc ELSE {FALSE}) :
           LET bare_esc == key = "esc" \/ (key = "escseq" /\ os_name = "posix" /\ ~kbhit)
           IN  /\ IF key \in {"1", "2", "3"}
                  THEN ensure_receive_active
                  ELSE /\ processing_event' =
                              IF bare_esc \/ key = "4" THEN FALSE
                              ELSE IF key = "5" THEN TRUE
                              ELSE processing_event
                       /\ UNCHANGED inbuf
               /\ Goto(CASE key \in {"ctrlc", "7"} -> "fin_set"
                         [] key \in {"1", "2", "3"} -> "Sending"
                         [] key = "5" -> "menu5_reset"
                         [] key = "8" -> "ManagingHistory"
                         [] key = "escseq" /\ os_name = "posix" /\ kbhit -> "MenuIdle"
                         [] OTHER -> "menu_check")
    /\ send_mode' = IF key \in {"1", "2", "3"} THEN ModeOfKey(key) ELSE send_mode
    /\ UNCHANGED <<histVars, rxLocals, os_name, probe, opened, exc, message, fg_data, ser, device,
                   arrived, close_calls, closed_msgs, join_warned>>

\* one key at the top menu
MenuKey == \E key \in MenuKeys : MenuKeyOn(key)

\* menu 5 after processing_event.set(): ser.reset_input_buffer(), whose
\* exception is caught and reported
Menu5Reset ==
    /\ fpc = "menu5_reset"
    /\ inbuf' = IF PortErrors = {} THEN <<>> ELSE inbuf
    /\ Goto("menu_check")
    /\ UNCHANGED <<histVars, rxLocals, os_name, probe, opened, exc, send_mode, message,
                   fg_data, ser, processing_event, device, arrived, close_calls,
                   closed_msgs, join_warned>>

\* the liveness check at the end of an iteration of the menu loop
MenuCheck ==
    /\ fpc = "menu_check"
    /\ Goto(IF Alive THEN "MenuIdle" ELSE "fin_set")
    /\ UNCHANGED <<histVars, portVars, rxLocals, os_name, probe, opened, exc, send_mode,
                   message, fg_data>>

\* ------------------------------------------------------ main: the send loops
\* The lines the operator types in a send loop.
SendLines == {<<>>, <<" ">>, <<"4", "1">>, <<"z", "z">>, <<"d", "o">>}

\* what read_line_msvcrt gives back: a line, None (Esc or its aliases), or
\* KeyboardInterrupt
LineInputs ==
    {[kind |-> "esc", text |-> <<>>], [kind |-> "ctrlc", text |-> <<>>]}
        \cup {[kind |-> "line", text |-> t] : t \in SendLines}

\* the line passes "if message and ser.is_open", is no service command and,
\* in the hex modes, is accepted as hex: ser.write is called
Transmits(mode, text) ==
    /\ text # <<>>
    /\ ser = "open"
    /\ handle_runtime_command(text) = <<>>
    /\ mode # "text" => HexAccepted(text)

\* the bytes handed to ser.write
Frame(mode, text) ==
    IF mode = "text" THEN send_text_message(text)
    ELSE IF mode = "hex" THEN send_hex_data(text)
    ELSE send_hex_data_with_crc(text)

\* the line is in the list of its mode already, or the lines sent so far have
\* left room for one more entry
MaySend(mode, text) ==
    \/ TotalEntries(COMMAND_HISTORY) < MaxSends
    \/ Strip(text) = <<>>
    \/ \E i \in 1..Len(COMMAND_HISTORY[mode]) : COMMAND_HISTORY[mode][i] = Strip(text)

\* one pass of a send loop on what read_line_msvcrt gave back, up to the point
\* where ser.write is entered
SendLineOn(input) ==
    /\ fpc = "Sending"
    /\ IF input.kind # "line"
       THEN /\ Goto(IF input.kind = "esc" THEN "menu_check" ELSE "fin_set")
            /\ send_mode' = "none"
            /\ UNCHANGED <<exc, message, fg_data>>
       ELSE IF ~Transmits(send_mode, input.text)
       THEN /\ Goto("Sending")
            /\ UNCHANGED <<exc, send_mode, message, fg_data>>
       ELSE /\ MaySend(send_mode, input.text)
            /\ IF PortErrors # {}
               THEN /\ Goto("fin_set")
                    /\ exc' = "fault"
                    /\ send_mode' = "none"
                    /\ UNCHANGED <<message, fg_data>>
               ELSE /\ Goto("fg_writing")
                    /\ message' = input.text
                    /\ fg_data' = Frame(send_mode, input.text)
                    /\ UNCHANGED <<exc, send_mode>>
    /\ UNCHANGED <<histVars, portVars, rxLocals, os_name, probe, opened>>

\* one pass of a send loop
SendLoop == \E input \in LineInputs : SendLineOn(input)

\* ser.write returns and the line is recorded, or the write fails
FgWriteEnd ==
    /\ fpc = "fg_writing"
    /\ \E outcome \in {"written"} \cup PortErrors :
           IF outcome = "written"
           THEN /\ Record(send_mode, message)
                /\ Goto("Sending")
                /\ UNCHANGED <<exc, send_mode>>
           ELSE /\ Goto("fin_set")
                /\ exc' = "fault"
                /\ send_mode' = "none"
                /\ UNCHANGED <<COMMAND_HISTORY, HISTORY_FILE>>
    /\ message' = <<>>
    /\ fg_data' = <<>>
    /\ UNCHANGED <<hist_op, portVars, rxLocals, os_name, probe, opened>>

\* ------------------------------------------------- main: the history manager
\* choose_option in manage_command_history; on nt getch hands Ctrl-C over as
\* the byte 03, which decodes and is refused as "not a number"
HistoryMenu ==
    /\ fpc = "ManagingHistory"
    /\ \E action \in {"show", "delete", "dedupe", "clear", "back", "ctrlc"} :
           /\ Goto(CASE action = "delete" /\ TotalEntries(COMMAND_HISTORY) > 0 -> "hist_delete"
                     [] action = "clear" -> "hist_clear"
                     [] action = "back" -> "menu_check"
                     [] action = "ctrlc" /\ os_name = "posix" -> "fin_set"
                     [] OTHER -> "ManagingHistory")
           /\ IF action = "dedupe" THEN Dedupe("all")
              ELSE UNCHANGED <<COMMAND_HISTORY, HISTORY_FILE>>
    /\ UNCHANGED <<hist_op, portVars, rxLocals, os_name, probe, opened, exc,
                   send_mode, message, fg_data>>

\* the number typed at "Введите номер записи для удаления"
HistoryDelete ==
    /\ fpc = "hist_delete"
    /\ \E ctrlc \in BOOLEAN, numeric \in BOOLEAN,
          idx \in 0..(TotalEntries(COMMAND_HISTORY) + 1) :
           IF ctrlc
           THEN Goto("fin_set") /\ UNCHANGED <<COMMAND_HISTORY, HISTORY_FILE>>
           ELSE Goto("ManagingHistory") /\ Delete(numeric, idx)
    /\ UNCHANGED <<hist_op, portVars, rxLocals, os_name, probe, opened, exc,
                   send_mode, message, fg_data>>

\* the answer typed at "Подтвердите очистку (y/n)"
HistoryClear ==
    /\ fpc = "hist_clear"
    /\ \E answer \in {"y", "n", "ctrlc"} :
           /\ Goto(IF answer = "ctrlc" THEN "fin_set" ELSE "ManagingHistory")
           /\ IF answer = "y" THEN Clear("all")
              ELSE UNCHANGED <<COMMAND_HISTORY, HISTORY_FILE>>
    /\ UNCHANGED <<hist_op, portVars, rxLocals, os_name, probe, opened, exc,
                   send_mode, message, fg_data>>

\* ------------------------------------------------------------ main: closing
FinallyPcs == {"fin_set", "fin_close", "fin_join", "fin_report"}

\* a finally block that does not set the Event
FinSetSkipped ==
    /\ fpc = "fin_set"
    /\ Goto("fin_close")
    /\ UNCHANGED <<histVars, portVars, rxLocals, os_name, probe, opened, exc, send_mode, message,
                   fg_data>>

\* finally: processing_event.set()
FinSet ==
    /\ fpc = "fin_set"
    /\ processing_event' = TRUE
    /\ Goto("fin_close")
    /\ UNCHANGED <<histVars, rxLocals, os_name, probe, opened, exc, send_mode, message,
                   fg_data, ser, device, inbuf, arrived, close_calls, closed_msgs,
                   join_warned>>

\* a finally block that does not close the port
FinCloseMissing ==
    /\ fpc = "fin_close"
    /\ Goto("fin_join")
    /\ UNCHANGED <<histVars, portVars, rxLocals, os_name, probe, opened, exc, send_mode, message,
                   fg_data>>

\* finally: safe_close_serial(ser, port)
FinClose ==
    /\ fpc = "fin_close"
    /\ safe_close_serial(TRUE)
    /\ Goto("fin_join")
    /\ UNCHANGED <<histVars, rxLocals, os_name, probe, opened, exc, send_mode, message,
                   fg_data, processing_event, device, arrived, join_warned>>

\* finally: if the thread is alive, receiver_thread.join(timeout=1.0)
FinJoin ==
    /\ fpc = "fin_join"
    /\ Alive => JoinReturns
    /\ Goto("fin_report")
    /\ UNCHANGED <<histVars, portVars, rxLocals, os_name, probe, opened, exc, send_mode,
                   message, fg_data>>

\* a finally block after which a fault is dropped like a normal exit
FinReportSwallows ==
    /\ fpc = "fin_report"
    /\ join_warned' = Alive
    /\ Goto("Terminated")
    /\ UNCHANGED <<histVars, rxLocals, os_name, probe, opened, exc, send_mode, message,
                   fg_data, ser, processing_event, device, inbuf, arrived,
                   close_calls, closed_msgs>>

\* finally: the second is_alive() check and its warning; then the break, or
\* the fault goes on to the outer handler
FinReport ==
    /\ fpc = "fin_report"
    /\ join_warned' = Alive
    /\ Goto(IF exc = "fault" THEN "exc_set" ELSE "Terminated")
    /\ UNCHANGED <<histVars, rxLocals, os_name, probe, opened, exc, send_mode, message,
                   fg_data, ser, processing_event, device, inbuf, arrived,
                   close_calls, closed_msgs>>

\* Ctrl-C as a signal while main is in the finally block: KeyboardInterrupt
\* replaces what was travelling and the outer handler takes over
FinInterrupt ==
    /\ fpc \in FinallyPcs
    /\ exc' = "none"
    /\ Goto("kb_set")
    /\ UNCHANGED <<histVars, portVars, rxLocals, os_name, probe, opened, send_mode, message,
                   fg_data>>

\* except KeyboardInterrupt: processing_event.set(); with ser = None the Event
\* is one no thread has
KbSet ==
    /\ fpc = "kb_set"
    /\ processing_event' = TRUE
    /\ Goto("kb_close")
    /\ UNCHANGED <<histVars, rxLocals, os_name, probe, opened, exc, send_mode, message,
                   fg_data, ser, device, inbuf, arrived, close_calls, closed_msgs,
                   join_warned>>

\* except KeyboardInterrupt: safe_close_serial(ser); sys.exit(0)
KbClose ==
    /\ fpc = "kb_close"
    /\ safe_close_serial(FALSE)
    /\ Goto("Terminated")
    /\ UNCHANGED <<histVars, rxLocals, os_name, probe, opened, exc, send_mode, message,
                   fg_data, processing_event, device, arrived, join_warned>>

\* except Exception: processing_event.set()
ExcSet ==
    /\ fpc = "exc_set"
    /\ processing_event' = TRUE
    /\ Goto("exc_close")
    /\ UNCHANGED <<histVars, rxLocals, os_name, probe, opened, exc, send_mode, message,
                   fg_data, ser, device, inbuf, arrived, close_calls, closed_msgs,
                   join_warned>>

\* except Exception: safe_close_serial(ser)
ExcClose ==
    /\ fpc = "exc_close"
    /\ safe_close_serial(FALSE)
    /\ Goto("RetryPrompt")
    /\ UNCHANGED <<histVars, rxLocals, os_name, probe, opened, exc, send_mode, message,
                   fg_data, processing_event, device, arrived, join_warned>>

\* "Попробовать снова? (y/n)": y starts the outer loop again with ser = None
RetryPrompt ==
    /\ fpc = "RetryPrompt"
    /\ \E answer \in {"y", "n"} :
           /\ Goto(IF answer = "y" THEN "SelectingPort" ELSE "Terminated")
           /\ ser' = IF answer = "y" THEN "none" ELSE ser
    /\ exc' = "none"
    /\ UNCHANGED <<histVars, rxLocals, os_name, probe, opened, send_mode, message, fg_data,
                   processing_event, device, inbuf, arrived, close_calls, closed_msgs,
                   join_warned>>

Foreground ==
    \/ SelectPort \/ ConfigureSettings \/ OpenPort \/ AskRetryPortSelection
    \/ MenuPoll \/ MenuKey \/ Menu5Reset \/ MenuCheck
    \/ SendLoop \/ FgWriteEnd
    \/ HistoryMenu \/ HistoryDelete \/ HistoryClear
    \/ FinSet \/ FinClose \/ FinJoin \/ FinReport \/ FinInterrupt
    \/ KbSet \/ KbClose \/ ExcSet \/ ExcClose \/ RetryPrompt

Environment == Arrive \/ DeviceGone

\* main() starts with a history file that holds three empty lists
Init == InitSession /\ InitHistory({DumpHistory(empty_history)}) /\ probe = NoProbe

Next == Foreground \/ Receiver \/ Environment

Spec == Init /\ [][Next]_vars

InitH == InitSession /\ InitHistory(HistoryFiles) /\ probe = NoProbe

NextH == HRecord \/ HDelete \/ HDedupe \/ HClear

SpecHistory == InitH /\ [][NextH]_vars

\* The receiver thread keeps being scheduled.
SpecReceiverRuns == Init /\ [][Next]_vars /\ WF_vars(Receiver)

\* what main runs from the finally block to the end of the session
Closing ==
    \/ FinSet \/ FinClose \/ FinJoin \/ FinReport
    \/ KbSet \/ KbClose \/ ExcSet \/ ExcClose

ClosingPcs == FinallyPcs \cup {"kb_set", "kb_close", "exc_set", "exc_close"}

\* The foreground keeps running while it closes a session; nothing is assumed
\* of the receiver thread.
SpecClosingRuns == Init /\ [][Next]_vars /\ WF_vars(Closing)

\* ------------------------------------------------------------------ claims
\* a step of receive_data that takes bytes out of the input buffer
RxDrains == rpc = "read" /\ request' # <<>> /\ Len(inbuf') < Len(inbuf)

\* a step of receive_data that enters ser.write(response)
RxResponds == rpc = "write" /\ rpc' = "writing"

\* C1: in every interleaving, receive_data takes bytes out of the input buffer
\* and starts writing an auto-response only while the Event is set.
C1_DrainOnlyWhileEnabled == [][(RxDrains \/ RxResponds) => processing_event]_vars

HasId(q, id) == \E j \in 1..Len(q) : q[j].id = id

\* a byte that arrived while receiving was paused is gone from the buffer
\* without having been read by receive_data
PausedLost ==
    \E i \in 1..Len(inbuf) :
        /\ inbuf[i].paused
        /\ ~HasId(inbuf', inbuf[i].id)
        /\ ~HasId(request', inbuf[i].id)

C3_WritesExclusive == ~(rpc = "writing" /\ fpc = "fg_writing")

\* C4: where the session is closed, and at each call that closes it, the Event
\* is set.
C4_SetBeforeClose ==
    (ser = "closed" \/ (ser = "open" /\ fpc \in {"fin_close", "kb_close"}))
        => processing_event

\* C4 witness: the port is closed and the Event set while receive_data is still
\* alive and holds the cleared Event it sampled before.
C4_ClosedAfterPause ==
    /\ ser = "closed"
    /\ processing_event
    /\ rpc = "check"
    /\ ~is_processing_allowed

\* C5: once the port is closed, receive_data ends, wherever it was.
C5_ReceiverEndsAfterClose == (ser = "closed") ~> ~Alive

\* C5 witness: receive_data was still alive when main had closed the port and
\* joined, and has since ended on the exception its call on the closed port
\* raised.
C5_EndedAfterClose ==
    /\ ser = "closed"
    /\ join_warned
    /\ rpc = "done"
    /\ warnings = 1

\* C6: once main has begun closing a session it gets to the end of it, whatever
\* receive_data does, and says so when the thread is still alive after the join.
C6_ClosingCompletes ==
    /\ (fpc \in ClosingPcs) ~> (fpc \in {"Terminated", "RetryPrompt"})
    /\ [][(fpc = "fin_report" /\ fpc' \in {"exc_set", "Terminated"}) =>
              join_warned' = Alive]_vars

\* C6 witness: the process has ended after reporting that the thread did not
\* finish.
C6_ReportedAndLeft == fpc = "Terminated" /\ join_warned

\* C7: a session's port is closed once: never twice, not at all only while the
\* session lasts, and main does not leave a session with the port open.
C7_ClosedExactlyOnce ==
    /\ close_calls <= 1
    /\ ser = "open" => close_calls = 0
    /\ (opened > 0 /\ ser # "open") => close_calls = 1
    /\ fpc \in {"Terminated", "RetryPrompt"} => ser # "open"

\* C7 witness: the process has ended in its second session, whose port was
\* closed once.
C7_SecondSessionClosed ==
    /\ fpc = "Terminated"
    /\ opened = 2
    /\ ser = "closed"
    /\ close_calls = 1

\* a step of main that is a call of safe_close_serial
CloseCall ==
    /\ fpc \in {"fin_close", "kb_close", "exc_close"}
    /\ fpc' # fpc
    /\ fpc' # "kb_set"

\* where main goes on after a call of safe_close_serial that raised nothing
AfterClose ==
    CASE fpc = "fin_close" -> "fin_join"
      [] fpc = "kb_close" -> "Terminated"
      [] OTHER -> "RetryPrompt"

C9_NoDuplicates ==
    \A key \in KeySet :
        \A i, j \in 1..Len(COMMAND_HISTORY[key]) :
            i # j => COMMAND_HISTORY[key][i] # COMMAND_HISTORY[key][j]

\* C9 witness: a line was recorded into a list that holds another value too.
C9_RecordedAmongOthers ==
    /\ hist_op.op = "record"
    /\ hist_op.done
    /\ Len(COMMAND_HISTORY[hist_op.key]) >= 2

Occurrences(list, value) == Cardinality({i \in 1..Len(list) : list[i] = value})

Without(list, value) == SelectSeq(list, LAMBDA x : x # value)

\* C10: after a record of a line that is not blank, the trimmed line is last in
\* the list of its mode and is there once, the other entries of the list are in
\* the order they were in, and the other lists are as they were.
C10_RecordPostcondition ==
    [][(hist_op'.op = "record" /\ Strip(hist_op'.arg) # <<>>) =>
           LET key == hist_op'.key
               value == Strip(hist_op'.arg)
               old == COMMAND_HISTORY[key]
               new == COMMAND_HISTORY'[key]
           IN  /\ new # <<>>
               /\ new[Len(new)] = value
               /\ Occurrences(new, value) = 1
               /\ Without(new, value) = Without(old, value)
               /\ \A other \in KeySet \ {key} :
                      COMMAND_HISTORY'[other] = COMMAND_HISTORY[other]]_vars

\* C10 witness: a line typed with blanks around it was recorded and is last in
\* a list that holds another value before it.
C10_TrimmedMovedLast ==
    /\ hist_op.op = "record"
    /\ hist_op.arg # Strip(hist_op.arg)
    /\ Strip(hist_op.arg) # <<>>
    /\ Len(COMMAND_HISTORY[hist_op.key]) >= 2
    /\ COMMAND_HISTORY[hist_op.key][Len(COMMAND_HISTORY[hist_op.key])] = Strip(hist_op.arg)

\* ------------------------------------------ functions applied on their own
\* probe holds one function, the argument it is given, and what it returned:
\* arg is drawn at the start, out is the result, again is the result of
\* applying the function to out.
programVars == <<histVars, os_name, fpc, opened, exc, send_mode, message, fg_data,
                 portVars, rxVars>>

Given(fn, arg) == [fn |-> fn, arg |-> arg, out |-> <<>>, again |-> <<>>, times |-> 0]

\* The entries of the stores deduplicate_history is given.
DupValues == {<<"1">>, <<"2">>}

AnyStores == [KeySet -> SeqsUpTo(DupValues, MaxDup)]

DedupeInputs ==
    {Given("deduplicate_history", [history |-> h, mode_key |-> k]) :
        h \in AnyStores, k \in KeySet \cup {"all"}}

\* deduplicate_history(mode_key) on the store, then once more on the result
ApplyDedupe ==
    /\ probe.fn = "deduplicate_history"
    /\ probe.times < 2
    /\ probe' =
           IF probe.times = 0
           THEN [probe EXCEPT
                    !.out = deduplicate_history(probe.arg.history, probe.arg.mode_key),
                    !.times = 1]
           ELSE [probe EXCEPT
                    !.again = deduplicate_history(probe.out, probe.arg.mode_key),
                    !.times = 2]
    /\ UNCHANGED programVars

ListInputs ==
    {Given("deduplicate_list_keep_last", items) : items \in SeqsUpTo(DupValues, MaxDup)}

\* deduplicate_list_keep_last(items), then once more on the result
ApplyDedupeList ==
    /\ probe.fn = "deduplicate_list_keep_last"
    /\ probe.times < 2
    /\ probe' =
           IF probe.times = 0
           THEN [probe EXCEPT !.out = deduplicate_list_keep_last(probe.arg), !.times = 1]
           ELSE [probe EXCEPT !.again = deduplicate_list_keep_last(probe.out), !.times = 2]
    /\ UNCHANGED programVars


\* The data bytes given to the codec, and the text "123456789".
CrcBytes == {0, 1, 2, 3, 65, 128, 170, 255}

CheckText == <<49, 50, 51, 52, 53, 54, 55, 56, 57>>

CrcInputs ==
    {Given("calculate_crc16", data) : data \in SeqsUpTo(CrcBytes, MaxData) \cup {CheckText}}

\* calculate_crc16(data)
ApplyCrc ==
    /\ probe.fn = "calculate_crc16"
    /\ probe.times = 0
    /\ probe' = [probe EXCEPT !.out = calculate_crc16(probe.arg), !.times = 1]
    /\ UNCHANGED programVars

UpperDigits ==
    <<"0", "1", "2", "3", "4", "5", "6", "7", "8", "9", "A", "B", "C", "D", "E", "F">>

LowerDigits ==
    <<"0", "1", "2", "3", "4", "5", "6", "7", "8", "9", "a", "b", "c", "d", "e", "f">>

RECURSIVE HexText(_, _, _)
\* the line an operator types for data: two digits a byte, sep after each
HexText(data, digits, sep) ==
    IF data = <<>> THEN <<>>
    ELSE <<digits[(Head(data) \div 16) + 1], digits[(Head(data) % 16) + 1]>>
             \o sep \o HexText(Tail(data), digits, sep)

FrameInputs ==
    {Given("send_hex_data_with_crc", [hex_string |-> HexText(data, digits, sep), data |-> data]) :
        data \in SeqsUpTo(CrcBytes, MaxData),
        digits \in {UpperDigits, LowerDigits},
        sep \in {<<>>, <<" ">>}}

\* send_hex_data_with_crc(ser, hex_string): the bytes given to ser.write, none
\* when the line is refused
ApplyFrame ==
    /\ probe.fn = "send_hex_data_with_crc"
    /\ probe.times = 0
    /\ probe' = [probe EXCEPT
                    !.out = IF HexAccepted(probe.arg.hex_string)
                            THEN send_hex_data_with_crc(probe.arg.hex_string)
                            ELSE <<>>,
                    !.times = 1]
    /\ UNCHANGED programVars

RECURSIVE FormatHex(_)
\* ' '.join(f'{b:02X}' for b in data)
FormatHex(data) ==
    IF data = <<>> THEN <<>>
    ELSE <<UpperDigits[(Head(data) \div 16) + 1], UpperDigits[(Head(data) % 16) + 1]>>
             \o (IF Len(data) = 1 THEN <<>> ELSE <<" ">> \o FormatHex(Tail(data)))

\* The characters of the lines typed as they come.
TypedChars == {"0", "A", "f", "z", " "}

\* A line for send_hex_data or send_hex_data_with_crc: the rendering of data,
\* or characters typed as they come.
HexInputs ==
    {Given("send_hex", [hex_string |-> FormatHex(data), data |-> data, rendered |-> TRUE,
                        crc |-> crc]) :
        data \in SeqsUpTo(CrcBytes, MaxData), crc \in BOOLEAN}
    \cup
    {Given("send_hex", [hex_string |-> text, data |-> <<>>, rendered |-> FALSE, crc |-> crc]) :
        text \in SeqsUpTo(TypedChars, MaxTyped), crc \in BOOLEAN}

\* send_hex_data or send_hex_data_with_crc on the line: whether it returned
\* True, and the bytes given to ser.write (calls = 0: ser.write was not called)
ApplyHex ==
    /\ probe.fn = "send_hex"
    /\ probe.times = 0
    /\ probe' =
           [probe EXCEPT
               !.out =
                   IF HexAccepted(probe.arg.hex_string)
                   THEN [ok |-> TRUE, calls |-> 1,
                         bytes |-> IF probe.arg.crc
                                   THEN send_hex_data_with_crc(probe.arg.hex_string)
                                   ELSE send_hex_data(probe.arg.hex_string)]
                   ELSE [ok |-> FALSE, calls |-> 0, bytes |-> <<>>],
               !.times = 1]
    /\ UNCHANGED programVars

\* str.upper() of one ASCII character
UpperChar(c) ==
    IF \E j \in 66..91 : AsciiPrintable[j] = c
    THEN AsciiPrintable[(CHOOSE j \in 66..91 : AsciiPrintable[j] = c) - 32]
    ELSE c

Upper(s) == [i \in 1..Len(s) |-> UpperChar(s[i])]

\* The characters of the hex lines typed at the prompt of a send loop.
HexLineChars == {"d", "E", "0", " "}

\* The lines typed at the prompt of a send loop: the prefixes of the four
\* names and the aliases, as they are, in capitals and with spaces around
\* them, lines that name no command, and lines of hex digits and spaces.
CommandLines ==
    LET plain == UNION {{SubSeq(cmd, 1, n) : n \in 1..Len(cmd)} : cmd \in KnownSet}
                     \cup {<<"/">> \o cmd : cmd \in KnownSet}
    IN  plain \cup {Upper(t) : t \in plain} \cup {<<" ">> \o t \o <<" ">> : t \in plain}
            \cup {<<" ">> \o Upper(t) \o <<" ">> : t \in plain}
            \cup {<<>>, <<" ">>, <<"/">>, <<"/", "d", "o">>, <<"h", "e", "l", "p", "x">>,
                  <<"x">>, <<"4", "1">>}
            \cup SeqsUpTo(HexLineChars, MaxTyped)

PassInputs ==
    {Given("send_loop", [mode |-> mode, line |-> line]) :
        mode \in KeySet, line \in CommandLines}

\* One pass of the send loop of the mode on the line, the port open and the
\* store empty: the service command run, the number of calls of ser.write,
\* the bytes written and the store afterwards.
ApplySendPass ==
    /\ probe.fn = "send_loop"
    /\ probe.times = 0
    /\ LET mode == probe.arg.mode
           line == probe.arg.line
           command == IF line = <<>> THEN <<>> ELSE handle_runtime_command(line)
           sent == line # <<>> /\ command = <<>> /\ (mode # "text" => HexAccepted(line))
       IN  probe' =
               [probe EXCEPT
                   !.out = [command |-> command,
                            calls   |-> IF sent THEN 1 ELSE 0,
                            bytes   |-> IF sent THEN Frame(mode, line) ELSE <<>>,
                            history |-> IF sent
                                        THEN add_command_to_history(empty_history, mode, line)
                                        ELSE empty_history],
                   !.times = 1]
    /\ UNCHANGED programVars

\* ------------------------------------------ read_line_msvcrt, key by key (nt)
RUNTIME_COMMANDS == KnownSet \cup {<<"/">> \o cmd : cmd \in KnownSet}

\* The entries of the list read_line_msvcrt is given, and the characters typed.
NavEntries == {<<"a">>, <<"a", "d">>, <<"D">>}

LineChars == {"a", "d"}

\* lists of the store: no entry twice
NavLists ==
    {h \in SeqsUpTo(NavEntries, MaxNav) :
        \A i, j \in 1..Len(h) : h[i] = h[j] => i = j}

\* read_line_msvcrt at its first getch(): chars = [], history_index = -1, and
\* current_history the list of history_key, or [] when no key is given
ReadInputs ==
    {[fn |-> "read_line_msvcrt",
      arg |-> [history_key |-> key,
               current_history |-> IF key = "none" THEN <<>> ELSE h],
      out |-> [chars |-> <<>>, history_index |-> -1, result |-> "reading"],
      again |-> <<>>,
      times |-> 0] :
        key \in {"text", "none"}, h \in NavLists}

\* The keys getch() hands over: "up" and "down" are 00 or E0 followed by H or
\* P, "special" is 00 or E0 followed by another byte or by none, "control" is
\* a byte that is not printable.
ReadKeys ==
    {"enter", "esc", "backspace", "tab", "ctrlc", "up", "down", "special", "control"}
        \cup LineChars

\* the candidates of Tab whose lower case starts with the lower case of chars
TabMatches(history_key, current_history, chars) ==
    {c \in RUNTIME_COMMANDS
            \cup (IF history_key = "none" THEN {}
                  ELSE {current_history[i] : i \in 1..Len(current_history)}) :
        StartsWith(Lower(c), Lower(chars))}

\* ArrowDown that stays on the newest entry
ArrowDownStays(current_history, chars, history_index) ==
    IF history_index >= 0 /\ history_index < Len(current_history) - 1
    THEN [chars |-> current_history[history_index + 2], history_index |-> history_index + 1]
    ELSE [chars |-> chars, history_index |-> history_index]

\* ArrowUp with a list that is not empty
ArrowUp(current_history, chars, history_index) ==
    LET index == IF history_index = -1 THEN Len(current_history) - 1
                 ELSE IF history_index > 0 THEN history_index - 1
                 ELSE history_index
    IN  [chars |-> current_history[index + 1], history_index |-> index]

\* ArrowDown with a list that is not empty
ArrowDown(current_history, chars, history_index) ==
    IF history_index >= 0 /\ history_index < Len(current_history) - 1
    THEN [chars |-> current_history[history_index + 2], history_index |-> history_index + 1]
    ELSE IF history_index >= 0
    THEN [chars |-> <<>>, history_index |-> -1]
    ELSE [chars |-> chars, history_index |-> history_index]

\* a printable character that forgets to leave the navigation
TypeCharKeepsIndex(chars, history_index, c) ==
    [chars |-> Append(chars, c), history_index |-> history_index]

\* a printable character
TypeChar(chars, history_index, c) ==
    [chars |-> Append(chars, c), history_index |-> -1]

\* one pass of the while loop of read_line_msvcrt on the key
ReadKeyOn(key) ==
    /\ probe.fn = "read_line_msvcrt"
    /\ probe.out.result = "reading"
    /\ key \in LineChars => Len(probe.out.chars) < MaxLine
    /\ LET current_history == probe.arg.current_history
           chars == probe.out.chars
           history_index == probe.out.history_index
           matches == TabMatches(probe.arg.history_key, current_history, chars)
           edited ==
               CASE key = "backspace" /\ chars # <<>> ->
                        [chars |-> SubSeq(chars, 1, Len(chars) - 1), history_index |-> -1]
                 [] key = "tab" /\ Cardinality(matches) = 1 ->
                        [chars |-> CHOOSE c \in matches : TRUE, history_index |-> -1]
                 [] key = "up" /\ current_history # <<>> ->
                        ArrowUp(current_history, chars, history_index)
                 [] key = "down" /\ current_history # <<>> ->
                        ArrowDown(current_history, chars, history_index)
                 [] key \in LineChars -> TypeChar(chars, history_index, key)
                 [] OTHER -> [chars |-> chars, history_index |-> history_index]
       IN  probe' =
               [probe EXCEPT
                   !.out = [chars |-> edited.chars,
                            history_index |-> edited.history_index,
                            result |-> CASE key = "enter" -> "line"
                                         [] key = "esc" -> "None"
                                         [] key = "ctrlc" -> "KeyboardInterrupt"
                                         [] OTHER -> "reading"]]
    /\ UNCHANGED programVars

ReadKey == \E key \in ReadKeys : ReadKeyOn(key)

InitReadLine ==
    /\ InitSession
    /\ InitHistory({DumpHistory(empty_history)})
    /\ probe \in ReadInputs

SpecReadLine == InitReadLine /\ [][ReadKey]_vars

\* ------------------------------------------- scripts/update_version.py
\* A version string is the sequence of its dot-separated numbers; the empty
\* sequence is no string at all (None or ""), which `version_arg or
\* curr_version` treats alike.
NoVersion == <<>>

Versions ==
    {<<a, b, c>> : a \in 0..MaxVer, b \in 0..MaxVer, c \in 0..MaxVer} \cup {<<1, 0>>}

\* SEMVER_RE.match
SEMVER_RE(version) == Len(version) = 3

\* what today_ru() may return
Dates == {"05.11.2026", "06.11.2026"}

\* pyproject.toml: its version line (spaced: written otherwise than
\* `version = "..."`, as in `version="..."`, which the pattern matches too)
\* and its release_date: a date, "section" for a [tool.virtualcom] table
\* without the key, "none" for no table.  The version line is the one of
\* [project], which read_pyproject reads.
Pyprojects ==
    [spaced : BOOLEAN, version : Versions, release_date : Dates \cup {"section", "none"}]

\* version_info.py is not there yet; installer.iss with and without its
\* `#define MyAppVersion` line; README.md with its version line ("line"),
\* with the heading the line is put under ("heading"), with neither ("none").
VersionFiles ==
    [PYPROJECT : Pyprojects,
     VERSION_INFO : {[written |-> FALSE, version |-> NoVersion, release_date |-> "none"]},
     INSTALLER_ISS : {[define |-> FALSE, version |-> NoVersion],
                      [define |-> TRUE, version |-> <<0, 0, 0>>]},
     README : {[at |-> "none", version |-> NoVersion, release_date |-> "none"],
               [at |-> "heading", version |-> NoVersion, release_date |-> "none"],
               [at |-> "line", version |-> <<0, 0, 0>>, release_date |-> "05.11.2026"]}]

VersionInputs ==
    {[fn |-> "update_version",
      arg |-> [cmd |-> "none", version |-> NoVersion, level |-> "none"],
      out |-> [files |-> f, exit |-> "none"], again |-> <<>>, times |-> 0] :
        f \in VersionFiles}

\* read_pyproject()[0]
read_pyproject(files) == files.PYPROJECT.version

\* update_pyproject: the file afterwards; raised when the substitution of
\* the version line gives the text back as it was (RuntimeError, nothing
\* written)
update_pyproject(pyproject, version, release_date) ==
    IF ~pyproject.spaced /\ pyproject.version = version
    THEN [raised |-> TRUE, content |-> pyproject]
    ELSE [raised |-> FALSE,
          content |-> [spaced |-> FALSE, version |-> version,
                       release_date |-> release_date]]

sync_derived(files, version, release_date) ==
    [files EXCEPT
        !.VERSION_INFO = [written |-> TRUE, version |-> version,
                          release_date |-> release_date],
        !.INSTALLER_ISS = IF @.define THEN [@ EXCEPT !.version = version] ELSE @,
        !.README = IF @.at = "none" THEN @
                   ELSE [at |-> "line", version |-> version,
                         release_date |-> release_date]]

\* sync(version_arg) on the day today: the files afterwards and how it ends
sync(files, version_arg, today) ==
    LET curr_version == read_pyproject(files)
        target_version == IF version_arg # NoVersion THEN version_arg ELSE curr_version
        pyproject == update_pyproject(files.PYPROJECT, target_version, today)
    IN  IF ~SEMVER_RE(target_version)
        THEN [files |-> files, exit |-> "SystemExit"]
        ELSE IF pyproject.raised
        THEN [files |-> files, exit |-> "RuntimeError"]
        ELSE [files |-> sync_derived([files EXCEPT !.PYPROJECT = pyproject.content],
                                     target_version, today),
              exit |-> "0"]

bump_version(version, level) ==
    CASE level = "patch" -> <<version[1], version[2], version[3] + 1>>
      [] level = "minor" -> <<version[1], version[2] + 1, 0>>
      [] level = "major" -> <<version[1] + 1, 0, 0>>

\* main() with the command line `sync [VERSION]` or `release [VERSION]`
RunSyncOn(cmd, version_arg, today) ==
    /\ probe.fn = "update_version"
    /\ probe' = [probe EXCEPT !.arg = [cmd |-> cmd, version |-> version_arg,
                                       level |-> "none"],
                              !.out = sync(probe.out.files, version_arg, today)]
    /\ UNCHANGED programVars

RunSync ==
    \E cmd \in {"sync", "release"}, version_arg \in Versions \cup {NoVersion}, today \in Dates :
        RunSyncOn(cmd, version_arg, today)

\* main() with the command line `bump LEVEL`
RunBump ==
    /\ probe.fn = "update_version"
    /\ \E level \in {"patch", "minor", "major"}, today \in Dates :
           LET current_version == read_pyproject(probe.out.files)
           IN  /\ SEMVER_RE(current_version) =>
                      bump_version(current_version, level) \in Versions
               /\ probe' =
                      [probe EXCEPT
                          !.arg = [cmd |-> "bump", version |-> NoVersion, level |-> level],
                          !.out = IF SEMVER_RE(current_version)
                                  THEN sync(probe.out.files,
                                            bump_version(current_version, level), today)
                                  ELSE [files |-> probe.out.files, exit |-> "ValueError"]]
    /\ UNCHANGED programVars

InitVersion ==
    /\ InitSession
    /\ InitHistory({DumpHistory(empty_history)})
    /\ probe \in VersionInputs

NextVersion == RunSync \/ RunBump

SpecVersion == InitVersion /\ [][NextVersion]_vars

InitPure ==
    /\ InitSession
    /\ InitHistory({DumpHistory(empty_history)})
    /\ \/ probe \in DedupeInputs
       \/ probe \in ListInputs
       \/ probe \in CrcInputs
       \/ probe \in FrameInputs
       \/ probe \in HexInputs
       \/ probe \in PassInputs

NextPure ==
    \/ ApplyDedupe \/ ApplyDedupeList \/ ApplyCrc \/ ApplyFrame \/ ApplyHex
    \/ ApplySendPass

SpecPure == InitPure /\ [][NextPure]_vars

\* --------------------------------------------------------- claims C11..C20
\* index of the last occurrence of value in list
LastIndex(list, value) ==
    CHOOSE i \in 1..Len(list) : list[i] = value /\ \A j \in (i + 1)..Len(list) : list[j] # value

\* result holds every value of list once, in the order of the last occurrences
KeepsLast(list, result) ==
    /\ {result[i] : i \in 1..Len(result)} = {list[i] : i \in 1..Len(list)}
    /\ \A i, j \in 1..Len(result) :
           i < j => LastIndex(list, result[i]) < LastIndex(list, result[j])

\* C11: deduplicate_history leaves in every list of its target each value once,
\* at the place of its last occurrence and in the original order, leaves the
\* other lists as they are, and applied a second time changes nothing; the
\* same holds of deduplicate_list_keep_last on one list.
C11_DedupeIdempotentKeepsLast ==
    /\ (probe.fn = "deduplicate_history" /\ probe.times >= 1) =>
           /\ \A key \in KeySet :
                  IF key \in TargetKeys(probe.arg.mode_key)
                  THEN KeepsLast(probe.arg.history[key], probe.out[key])
                  ELSE probe.out[key] = probe.arg.history[key]
           /\ probe.times = 2 => probe.again = probe.out
    /\ (probe.fn = "deduplicate_list_keep_last" /\ probe.times >= 1) =>
           /\ KeepsLast(probe.arg, probe.out)
           /\ probe.times = 2 => probe.again = probe.out

C11_EarlierDuplicateDropped ==
    /\ probe.fn = "deduplicate_history"
    /\ probe.times = 2
    /\ probe.arg.mode_key = "hex"
    /\ probe.arg.history["hex"] = <<<<"1">>, <<"2">>, <<"1">>>>
    /\ probe.out["hex"] = <<<<"2">>, <<"1">>>>
    /\ probe.again = probe.out

\* C12: clear_history(mode) leaves the list of that mode empty and the lists
\* of the other modes as they were; clear_history(None) leaves all three empty.
C12_ClearEmptiesTarget ==
    [][hist_op'.op = "clear" =>
           \A key \in KeySet :
               IF hist_op'.key \in {key, "all"}
               THEN COMMAND_HISTORY'[key] = <<>>
               ELSE COMMAND_HISTORY'[key] = COMMAND_HISTORY[key]]_vars

C12_OneModeCleared ==
    /\ hist_op.op = "clear"
    /\ hist_op.key = "hex"
    /\ COMMAND_HISTORY["hex"] = <<>>
    /\ Len(COMMAND_HISTORY["text"]) = 2
    /\ COMMAND_HISTORY["hex_crc"] # <<>>

\* C13: a delete whose number is not numeric (noted as 0) or lies outside
\* 1..N, N the number of entries of all modes, is not carried out: the store
\* and the history file stay as they were.
C13_BadIndexChangesNothing ==
    [][(/\ hist_op'.op = "delete"
        /\ (hist_op'.idx < 1 \/ hist_op'.idx > TotalEntries(COMMAND_HISTORY))) =>
           /\ ~hist_op'.done
           /\ UNCHANGED <<COMMAND_HISTORY, HISTORY_FILE>>]_vars

C13_IndexPastTheEndRefused ==
    /\ hist_op.op = "delete"
    /\ ~hist_op.done
    /\ TotalEntries(COMMAND_HISTORY) = 2
    /\ hist_op.idx = 3

\* the document in the file is a dict that holds under each key the list of
\* the strings the store holds under it
FileHolds(file, history) ==
    /\ file.kind = "json"
    /\ file.top = "dict"
    /\ \A key \in KeySet :
           /\ file.d[key].t = "list"
           /\ Len(file.d[key].items) = Len(history[key])
           /\ \A i \in 1..Len(history[key]) :
                  file.d[key].items[i] = [t |-> "str", s |-> history[key][i], n |-> 0]

\* C14: once a record, a delete, a dedupe or a clear that changed the store
\* has returned, the history file holds the store, and loading it gives the
\* store back.
C14_FileEqualsStore ==
    (hist_op.op \in {"record", "delete", "dedupe", "clear"} /\ hist_op.done) =>
        /\ FileHolds(HISTORY_FILE, COMMAND_HISTORY)
        /\ load_command_history(HISTORY_FILE) = COMMAND_HISTORY

C14_SavedAfterDelete ==
    /\ hist_op.op = "delete"
    /\ hist_op.done
    /\ TotalEntries(COMMAND_HISTORY) = 2
    /\ FileHolds(HISTORY_FILE, COMMAND_HISTORY)

\* ------------------------------------------------- a save that is cut short
\* HISTORY_FILE.write_text opens the file for writing, which empties it, then
\* writes the text and closes. A process stopped before the open leaves the
\* file as it was, one stopped after the close leaves the new text, and one
\* stopped in between leaves no text or a part of it, which is no JSON document.
CutSaves(new) == {HISTORY_FILE, CorruptFile, DumpHistory(new)}

\* add_command_to_history is stopped inside save_command_history(); the
\* program is started again and loads what the file holds
HRecordCut ==
    /\ \E history_key \in KeySet, command \in Commands :
           /\ MayRecord(history_key, command)
           /\ AddSaves(COMMAND_HISTORY, history_key, command)
           /\ HISTORY_FILE' \in
                 CutSaves(add_command_to_history(COMMAND_HISTORY, history_key, command))
           /\ COMMAND_HISTORY' = load_command_history(HISTORY_FILE')
           /\ Noted("record_cut", history_key, command, 0, FALSE)
    /\ UNCHANGED <<fgVars, portVars, rxVars>>

NextPersist == NextH \/ HRecordCut

SpecPersist == InitH /\ [][NextPersist]_vars

\* C15: when a record is stopped inside its save, the file holds the document
\* it held before or the document of the new store, and the next start does
\* not find fewer entries than the file held before.
C15_PersistAtomic ==
    [][hist_op'.op = "record_cut" =>
           LET new == add_command_to_history(COMMAND_HISTORY, hist_op'.key, hist_op'.arg)
           IN  /\ HISTORY_FILE' \in {HISTORY_FILE, DumpHistory(new)}
               /\ COMMAND_HISTORY' \in {load_command_history(HISTORY_FILE), new}]_vars

ChunkBytes == {0, 1, 2, 3, 5, 65, 170, 187, 204, 245, 246, 255}

Chunks == SeqsUpTo(ChunkBytes, MaxChunk) \ {<<>>}

\* the chunk as the driver buffers it while receiving is enabled
Buffered(chunk) == [i \in 1..Len(chunk) |-> [b |-> chunk[i], id |-> i, paused |-> FALSE]]

\* A session is open, receiving is enabled, the foreground waits at the top
\* menu, and the device has sent one chunk.
InitResponder ==
    /\ os_name \in {"nt", "posix"}
    /\ fpc = "MenuIdle"
    /\ opened = 1
    /\ exc = "none"
    /\ send_mode = "none"
    /\ message = <<>>
    /\ fg_data = <<>>
    /\ ser = "open"
    /\ processing_event = TRUE
    /\ device = "ok"
    /\ \E chunk \in Chunks : inbuf = Buffered(chunk) /\ arrived = Len(chunk)
    /\ rpc = "loop"
    /\ is_processing_allowed = FALSE
    /\ request = <<>>
    /\ response = <<>>
    /\ close_calls = 0
    /\ closed_msgs = 0
    /\ warnings = 0
    /\ join_warned = FALSE
    /\ InitHistory({DumpHistory(empty_history)})
    /\ probe = NoProbe

SpecResponder == InitResponder /\ [][Receiver]_vars

\* C17: the response to each chunk read is the one of the first rule that
\* matches: 01 02 03 gives 01 0C, 41 gives 20 00, AA BB CC gives DD EE,
\* 01 05 00 gives 01 0F, and a chunk no rule matches gives none; the receiver
\* enters ser.write only with a response that is not empty.
C17_RulesInOrder ==
    /\ request # <<>> =>
           LET chunk == Bytes(request)
           IN  /\ chunk = <<1, 2, 3>> => response = <<1, 12>>
               /\ chunk = <<65>> => response = <<32, 0>>
               /\ chunk = <<170, 187, 204>> => response = <<221, 238>>
               /\ chunk = <<1, 5, 0>> => response = <<1, 15>>
               /\ (/\ chunk \notin {<<1, 2, 3>>, <<65>>, <<170, 187, 204>>}
                   /\ ~(Len(chunk) = 3 /\ chunk[1] = 1)) => response = <<>>
    /\ rpc \in {"write", "writing"} => response # <<>>

C17_UnmatchedChunkSkipped ==
    /\ request # <<>>
    /\ Bytes(request) = <<255>>
    /\ response = <<>>
    /\ rpc = "wait"

\* C18: a chunk of three bytes whose first byte is 01 is answered, whatever
\* the other two bytes are, with two bytes: 01 and the second byte plus 10.
C18_AddTenForEveryByte ==
    [][(rpc = "read" /\ Len(inbuf) = 3 /\ inbuf[1].b = 1) =>
           /\ rpc' = "write"
           /\ Len(response') = 2
           /\ response'[1] = 1
           /\ response'[2] \in {inbuf[2].b + 10, (inbuf[2].b + 10) % 256}]_vars

\* bit i of a
Bit(a, i) == (a \div (2 ^ i)) % 2

\* a xor b on 16 bits, bit by bit
Xor16(a, b) ==
    LET bits == [i \in 0..15 |-> ((Bit(a, i) + Bit(b, i)) % 2) * (2 ^ i)]
    IN  bits[0] + bits[1] + bits[2] + bits[3] + bits[4] + bits[5] + bits[6] + bits[7]
        + bits[8] + bits[9] + bits[10] + bits[11] + bits[12] + bits[13] + bits[14] + bits[15]

RECURSIVE Reflect(_, _)
\* the low n bits of x in reverse order
Reflect(x, n) == IF n = 0 THEN 0 ELSE (x % 2) * (2 ^ (n - 1)) + Reflect(x \div 2, n - 1)

RECURSIVE ShiftOut(_, _)
\* k steps of the division by x^16 + x^15 + x^2 + 1 (8005 hex), high bit first
ShiftOut(reg, k) ==
    IF k = 0 THEN reg
    ELSE IF reg >= 32768
         THEN ShiftOut(Xor16((reg * 2) % 65536, 32773), k - 1)
         ELSE ShiftOut(reg * 2, k - 1)

RECURSIVE DivideFrom(_, _, _)
DivideFrom(reg, data, i) ==
    IF i > Len(data) THEN reg
    ELSE DivideFrom(ShiftOut(Xor16(reg, Reflect(data[i], 8) * 256), 8), data, i + 1)

\* CRC-16/MODBUS by its catalogue parameters: polynomial 8005, initial value
\* FFFF, input and output reflected, no final xor
ModbusReference(data) == Reflect(DivideFrom(65535, data, 1), 16)

\* C19: calculate_crc16 gives the CRC-16/MODBUS of its data, a value in
\* 0..65535; it is FFFF for no data and 4B37 for the text "123456789".
C19_CrcIsModbus ==
    (probe.fn = "calculate_crc16" /\ probe.times = 1) =>
        /\ probe.out = ModbusReference(probe.arg)
        /\ probe.out \in 0..65535
        /\ probe.arg = <<>> => probe.out = 65535
        /\ probe.arg = CheckText => probe.out = 19255

C19_CheckTextSummed ==
    /\ probe.fn = "calculate_crc16"
    /\ probe.times = 1
    /\ probe.arg = CheckText
    /\ probe.out = 19255

\* C20: the bytes send_hex_data_with_crc writes for a line of hex digits are
\* the data bytes of the line, then the low byte and then the high byte of
\* their CRC-16/MODBUS.
C20_FrameIsDataThenCrcLowHigh ==
    (probe.fn = "send_hex_data_with_crc" /\ probe.times = 1) =>
        LET crc == ModbusReference(probe.arg.data)
        IN  probe.out = probe.arg.data \o <<crc % 256, crc \div 256>>

C20_TwoBytesFramed ==
    /\ probe.fn = "send_hex_data_with_crc"
    /\ probe.times = 1
    /\ probe.arg.hex_string = <<"0", "1", " ", "0", "2", " ">>
    /\ probe.out = <<1, 2, 129, 225>>

\* --------------------------------------------------------- claims C21..C30
\* the line without its spaces holds a character that is no hex digit, or an
\* odd number of characters
BadHex(text) ==
    LET h == SelectSeq(text, LAMBDA c : c # " ")
    IN  \/ \E i \in 1..Len(h) :
               h[i] \notin {"0", "1", "2", "3", "4", "5", "6", "7", "8", "9",
                            "A", "B", "C", "D", "E", "F", "a", "b", "c", "d", "e", "f"}
        \/ Len(h) % 2 = 1

\* C21: the line that renders data as two upper-case hex digits a byte with
\* spaces between is accepted and its bytes are data (followed by the CRC in
\* hex+CRC mode); a line that without its spaces holds a character that is no
\* hex digit, or an odd number of digits, is refused and ser.write is not called.
C21_HexRoundTripAndRefusal ==
    (probe.fn = "send_hex" /\ probe.times = 1) =>
        /\ probe.arg.rendered =>
               /\ probe.out.ok
               /\ probe.out.calls = 1
               /\ SubSeq(probe.out.bytes, 1, Len(probe.arg.data)) = probe.arg.data
               /\ Len(probe.out.bytes) = Len(probe.arg.data) + (IF probe.arg.crc THEN 2 ELSE 0)
        /\ BadHex(probe.arg.hex_string) =>
               /\ ~probe.out.ok
               /\ probe.out.calls = 0
               /\ probe.out.bytes = <<>>

C21_OddDigitsRefused ==
    /\ probe.fn = "send_hex"
    /\ probe.times = 1
    /\ probe.arg.hex_string = <<"0", "A", "f">>
    /\ ~probe.out.ok
    /\ probe.out.calls = 0

\* C22: once menu 5 has set the Event, receive_data reads no byte that was
\* buffered while receiving was paused.
C22_ResumeDiscardsPaused ==
    [][(fpc = "menu5_reset" /\ RxDrains) =>
           \A i \in 1..Len(request') : ~request'[i].paused]_vars

\* C23: Esc at the top menu clears the Event and nothing else: the port, the
\* receiver thread, the input buffer, the bytes written and the history stay
\* as they are, main goes to the check that ends the iteration, and from that
\* check back to the top menu while the receiver thread is alive.
C23_EscOnlyPauses ==
    /\ [][MenuKeyOn("esc") =>
              /\ processing_event' = FALSE
              /\ fpc' = "menu_check"
              /\ UNCHANGED <<ser, device, rpc, inbuf, fg_data, message, send_mode,
                             COMMAND_HISTORY, HISTORY_FILE, close_calls>>]_vars
    /\ [][(fpc = "menu_check" /\ fpc' # fpc /\ Alive) => fpc' = "MenuIdle"]_vars

C23_PausedAtTopMenu ==
    /\ fpc = "MenuIdle"
    /\ ~processing_event
    /\ ser = "open"
    /\ Alive
    /\ inbuf # <<>>
    /\ TotalEntries(COMMAND_HISTORY) = 1

\* where main is while a session is connected and the operator is asked for a key or a line
ConnectedPcs == {"MenuIdle", "Sending", "ManagingHistory", "hist_delete", "hist_clear"}

\* C24: wherever a connected session waits for the operator, there is a
\* keystroke that takes main to the finally block with no fault travelling:
\* Ctrl-C at the top menu, and Ctrl-C at every other prompt.
C24_CtrlCReachesClosing ==
    /\ fpc = "MenuIdle" => ENABLED MenuKeyOn("ctrlc")
    /\ fpc \in ConnectedPcs => ENABLED (Foreground /\ fpc' = "fin_set" /\ exc' = "none")

\* main is inside a send loop: at its prompt, or in its ser.write
SendPcs == {"Sending", "fg_writing"}

\* C25: choosing 1, 2 or 3 at the top menu sets the Event before the first
\* line of the send loop is read, and nothing run from inside a send loop
\* clears it: whenever main is inside a send loop the Event is set.
C25_SendModeReceives ==
    /\ [][(\E key \in {"1", "2", "3"} : MenuKeyOn(key)) =>
              (processing_event' /\ fpc' = "Sending")]_vars
    /\ [][(fpc \in SendPcs /\ fpc' \in SendPcs) => processing_event']_vars
    /\ [](fpc \in SendPcs => processing_event)

\* C25 witness: main is at the prompt of a send loop with the Event set, and
\* the input buffer holds a byte that arrived while receiving was paused.
C25_EnteredFromPause ==
    /\ fpc = "Sending"
    /\ processing_event
    /\ \E i \in 1..Len(inbuf) : inbuf[i].paused

\* ser.write of a send loop has returned and the loop is back at its prompt
Transmitted == fpc = "fg_writing" /\ fpc' = "Sending"

\* value is an entry of the list
Listed(list, value) == \E i \in 1..Len(list) : list[i] = value

\* a line typed in a hex mode that send_hex_data refuses
RefusedLines ==
    {t \in SendLines : t # <<>> /\ handle_runtime_command(t) = <<>> /\ BadHex(t)}

\* C26 as stated: a line is recorded in the store exactly when it was
\* transmitted successfully: after every transmission the line is in the list
\* of the mode.
C26_RecordedExactlyWhenSent ==
    [][Transmitted =>
           \/ Listed(COMMAND_HISTORY'[send_mode], message)
           \/ Listed(COMMAND_HISTORY'[send_mode], Strip(message))]_vars

\* C26, amended: inside a send loop the store changes only when ser.write has
\* returned, and then only the list of the mode in use; a transmitted line is
\* recorded, trimmed, as the last entry of that list unless it is blank, and a
\* transmitted blank line leaves the store and the file as they are; a line
\* refused as hex leaves every variable as it is: nothing is written, no list
\* changes, and the loop is at the prompt of the same mode.
C26_RecordedWhenSentUnlessBlank ==
    /\ [][(fpc \in SendPcs /\ COMMAND_HISTORY' # COMMAND_HISTORY) =>
              /\ Transmitted
              /\ Strip(message) # <<>>
              /\ \A key \in KeySet \ {send_mode} :
                     COMMAND_HISTORY'[key] = COMMAND_HISTORY[key]]_vars
    /\ [][Transmitted =>
              IF Strip(message) = <<>>
              THEN UNCHANGED <<COMMAND_HISTORY, HISTORY_FILE>>
              ELSE /\ COMMAND_HISTORY'[send_mode] # <<>>
                   /\ COMMAND_HISTORY'[send_mode][Len(COMMAND_HISTORY'[send_mode])]
                          = Strip(message)
                   /\ send_mode' = send_mode]_vars
    /\ [][~(\E t \in RefusedLines :
                /\ send_mode \in {"hex", "hex_crc"}
                /\ SendLineOn([kind |-> "line", text |-> t]))]_vars
    /\ [][(fpc = "Sending" /\ fpc' = "fg_writing" /\ send_mode # "text") =>
              ~BadHex(message')]_vars

\* C26 witness: the hex+CRC loop is back at its prompt with the transmitted
\* line recorded under hex_crc and under no other key.
C26_RecordedUnderItsMode ==
    /\ fpc = "Sending"
    /\ send_mode = "hex_crc"
    /\ COMMAND_HISTORY = [empty_history EXCEPT !["hex_crc"] = <<<<"4", "1">>>>]
    /\ RefusedLines # {}

\* the line as the claim reads it: trimmed, in lower case
Typed(line) == Lower(Strip(line))

\* the names the line stands for: a name itself, a name after "/", or a name
\* the line is a non-empty prefix of
NamedBy(line) ==
    {cmd \in KnownSet :
        \/ Typed(line) = cmd
        \/ Typed(line) = <<"/">> \o cmd
        \/ Typed(line) # <<>> /\ StartsWith(cmd, Typed(line))}

\* C27: a line of a send loop that is one of help, init, doctor, history, one
\* of them after "/", or a non-empty prefix of exactly one of them, in any
\* case and with spaces around it, runs that service command, and ser.write is
\* not called and the store is left as it was; any other non-empty line, a
\* prefix of several names among them, runs no service command and goes to the
\* send function of the mode.
C27_ServiceCommandNotSent ==
    (probe.fn = "send_loop" /\ probe.times = 1) =>
        LET line == probe.arg.line
        IN  IF Cardinality(NamedBy(line)) = 1
            THEN /\ probe.out.command \in NamedBy(line)
                 /\ probe.out.calls = 0
                 /\ probe.out.bytes = <<>>
                 /\ probe.out.history = empty_history
            ELSE /\ probe.out.command = <<>>
                 /\ (line # <<>> /\ probe.arg.mode = "text") =>
                        /\ probe.out.calls = 1
                        /\ probe.out.bytes = send_text_message(line)

\* C27 witness: " DO " typed in the text loop ran doctor and nothing was
\* written or recorded.
C27_PrefixRanDoctor ==
    /\ probe.fn = "send_loop"
    /\ probe.times = 1
    /\ probe.arg = [mode |-> "text", line |-> <<" ", "D", "O", " ">>]
    /\ probe.out.command = CmdDoctor
    /\ probe.out.calls = 0
    /\ probe.out.history = empty_history

\* C28: at the top menu on posix, an arrow or function key (ESC and the bytes
\* that follow it) leaves the Event as it is and main at the top menu.
C28_EscSequenceIgnored ==
    [][(os_name = "posix" /\ MenuKeyOn("escseq")) =>
           (processing_event' = processing_event /\ fpc' = "MenuIdle")]_vars

\* what main runs without waiting for the operator: the poll of the top menu
\* on nt, the check at the end of an iteration of the menu loop, the reset of
\* menu 5, the return of ser.write, and the closing of the session
Unattended == MenuPoll \/ MenuCheck \/ Menu5Reset \/ FgWriteEnd \/ Closing

\* Both threads keep being scheduled; the operator types when they choose to.
SpecThreadsRun == Init /\ [][Next]_vars /\ WF_vars(Receiver) /\ WF_vars(Unattended)

\* C29: once the receiver thread has ended while main is at the top menu, in
\* a send loop or in the history manager, main comes to close the session.
C29_ReceiverDeathDetected ==
    (fpc \in ConnectedPcs /\ opened > 0 /\ ~Alive) ~> (fpc \in ClosingPcs)

\* serial.Serial(...) raises with an error text
OpenFails == \E error_text \in OpenErrors : OpenPortOn(error_text)

\* C30 as stated: after a generic failure the operator either has the same
\* port opened again or leaves the program.
C30_RetrySamePort ==
    [][AskRetryPortSelection => fpc' \in {"Opening", "Terminated", "kb_set"}]_vars

\* C30, amended: a failed open with a phantom-port text takes main back to the
\* port selection without a question; with any other text main asks, and the
\* answer y takes it back to the port selection, the answer n ends the
\* program; the failed open leaves the port unopened, the Event and the
\* receiver thread as they were, and before the first successful open there
\* is no port object, no set Event and no thread.
C30_FailedOpenReselectsOrExits ==
    /\ [][(\E error_text \in PhantomTexts : OpenPortOn(error_text)) =>
              fpc' = "SelectingPort"]_vars
    /\ [][(\E error_text \in OpenErrors \ PhantomTexts : OpenPortOn(error_text)) =>
              fpc' = "AskRetry"]_vars
    /\ [][AskRetryPortSelection => fpc' \in {"SelectingPort", "Terminated", "kb_set"}]_vars
    /\ [][OpenFails =>
              /\ ser' # "open"
              /\ UNCHANGED <<ser, processing_event, rpc, opened>>]_vars
    /\ []((opened = 0 /\ fpc \in {"SelectingPort", "ConfiguringSettings", "Opening", "AskRetry"})
              => (ser = "none" /\ ~processing_event /\ rpc = "none"))

\* C30 witness: main asks after a generic failure of the first open: no port
\* object, the Event clear, no thread.
C30_AskedAfterGenericFailure ==
    /\ fpc = "AskRetry"
    /\ opened = 0
    /\ ser = "none"
    /\ ~processing_event
    /\ rpc = "none"

\* --------------------------------------------------------- claims C31..C38
\* a step of main on which an exception other than KeyboardInterrupt is raised
\* inside the session
FaultRaised == exc # "fault" /\ exc' = "fault"

\* C31: a fault raised inside the session takes main into the same finally
\* block as a normal exit, which sets the Event, closes the port, joins the
\* thread and reports; from there the fault reaches the outer handler and the
\* question "Попробовать снова?", by which time the Event is set and the port
\* is closed, once; the answer y takes main to the port selection with no
\* port object, any other answer ends the process.
C31_FaultClosesThenAsks ==
    /\ [][FaultRaised => (fpc \in SendPcs /\ fpc' = "fin_set")]_vars
    /\ [][(fpc = "fin_set" /\ fpc' \notin {fpc, "kb_set"}) =>
              (fpc' = "fin_close" /\ processing_event')]_vars
    /\ [][(fpc = "fin_close" /\ fpc' \notin {fpc, "kb_set"}) =>
              (fpc' = "fin_join" /\ ser' = "closed")]_vars
    /\ [][(fpc = "fin_join" /\ fpc' \notin {fpc, "kb_set"}) => fpc' = "fin_report"]_vars
    /\ [][(fpc = "fin_report" /\ fpc' \notin {fpc, "kb_set"}) =>
              fpc' = (IF exc = "fault" THEN "exc_set" ELSE "Terminated")]_vars
    /\ [][(fpc' = "exc_set" /\ fpc # "exc_set") => (fpc = "fin_report" /\ exc = "fault")]_vars
    /\ [][(fpc' = "RetryPrompt" /\ fpc # "RetryPrompt") => fpc = "exc_close"]_vars
    /\ [](fpc = "RetryPrompt" =>
              (processing_event /\ ser = "closed" /\ close_calls = 1 /\ opened > 0))
    /\ [][RetryPrompt =>
              \/ fpc' = "SelectingPort" /\ ser' = "none" /\ exc' = "none"
              \/ fpc' = "Terminated"]_vars

\* C31 witness: after a fault in the first session and the answer y, main is
\* at the port selection with no port object.
C31_AskedAndBackAtSelection ==
    /\ fpc = "SelectingPort"
    /\ opened = 1
    /\ ser = "none"
    /\ exc = "none"
    /\ processing_event

\* the locals of read_line_msvcrt while it reads with a list that is not empty
Navigating ==
    /\ probe.fn = "read_line_msvcrt"
    /\ probe.out.result = "reading"
    /\ probe.arg.current_history # <<>>

\* after the step the buffer holds entry k of the list and the index is k
Shows(k) ==
    /\ probe'.out.history_index = k
    /\ probe'.out.chars = probe.arg.current_history[k + 1]

\* the step leaves chars and history_index as they are
BufferKept == probe'.out = probe.out

\* C32 as stated: ArrowDown on the newest entry leaves the buffer and the
\* index as they are.
C32_ArrowDownAtNewestKept ==
    [][(Navigating /\ probe.out.history_index = Len(probe.arg.current_history) - 1
            /\ ReadKeyOn("down")) => BufferKept]_vars

\* C32, amended: with a list of n > 0 entries, ArrowUp on a fresh line shows
\* the newest entry, ArrowUp on entry i > 0 shows entry i - 1, and ArrowUp on
\* entry 0 changes nothing; ArrowDown on entry i < n - 1 shows entry i + 1,
\* ArrowDown on entry n - 1 goes back to a fresh, empty line, and ArrowDown on
\* a fresh line changes nothing.
C32_ArrowsWalkTheList ==
    /\ [][(Navigating /\ ReadKeyOn("up")) =>
              CASE probe.out.history_index = -1 -> Shows(Len(probe.arg.current_history) - 1)
                [] probe.out.history_index > 0 -> Shows(probe.out.history_index - 1)
                [] OTHER -> FALSE]_vars
    /\ [][(Navigating /\ ReadKeyOn("down")) =>
              CASE /\ probe.out.history_index >= 0
                   /\ probe.out.history_index < Len(probe.arg.current_history) - 1 ->
                       Shows(probe.out.history_index + 1)
                [] probe.out.history_index = Len(probe.arg.current_history) - 1 ->
                       probe'.out.history_index = -1 /\ probe'.out.chars = <<>>
                [] OTHER -> FALSE]_vars
    /\ [](Navigating => ENABLED (ReadKeyOn("up") /\ probe'.out.history_index >= 0))
    /\ []((Navigating /\ probe.out.history_index >= 0) =>
              ENABLED (ReadKeyOn("down") /\ probe'.out # probe.out))

\* C32 witness: two ArrowUp on a list of three entries show the middle one.
C32_SecondNewestShown ==
    /\ Navigating
    /\ Len(probe.arg.current_history) = 3
    /\ probe.out.history_index = 1
    /\ probe.out.chars = probe.arg.current_history[2]

\* C33: once main has closed the port of a session whose device is still
\* there, receive_data prints no warning on its way out.
C33_NoWarningAfterClose ==
    [][(ser = "closed" /\ device = "ok" /\ Alive) => warnings' = warnings]_vars

\* C34: with the port open and the device gone, a step of receive_data that
\* prints a warning ends the loop, and no second warning follows.
C34_DeviceErrorEndsLoop ==
    [][(ser = "open" /\ device = "gone" /\ warnings' > warnings) =>
           (rpc' = "done" /\ warnings' = 1)]_vars

\* a step of read_line_msvcrt that changes the edit buffer by a printable
\* character, by Backspace or by Tab
ManualEdit ==
    /\ probe'.out.chars # probe.out.chars
    /\ \E key \in LineChars \cup {"backspace", "tab"} : ReadKeyOn(key)

\* C35: while read_line_msvcrt reads key by key, history_index is in
\* -1 .. n - 1 for the n entries of the list of its mode; when it is not -1 the
\* edit buffer is the entry at that index; and every step that changes the
\* buffer by a printable character, Backspace or Tab leaves the index at -1.
C35_IndexNamesTheBuffer ==
    /\ [](probe.fn = "read_line_msvcrt" =>
              /\ probe.out.history_index \in -1..(Len(probe.arg.current_history) - 1)
              /\ probe.out.history_index # -1 =>
                     probe.out.chars = probe.arg.current_history[probe.out.history_index + 1])
    /\ [][ManualEdit => probe'.out.history_index = -1]_vars

\* C35 witness: the entry "D" was brought up and a character typed after it:
\* the buffer is "Da" and the index is back at -1.
C35_TypedAfterArrowUp ==
    /\ Navigating
    /\ probe.out.chars = <<"D", "a">>
    /\ probe.out.history_index = -1

\* the hex digits of the line, its spaces left out
DigitsOf(line) ==
    SelectSeq(line, LAMBDA c : c # " ")

\* a line of hex digits and spaces with an even number of digits
ValidHexFrame(line) ==
    /\ line # <<>>
    /\ \A i \in 1..Len(line) :
           line[i] \in {"0", "1", "2", "3", "4", "5", "6", "7", "8", "9", " ",
                        "A", "B", "C", "D", "E", "F", "a", "b", "c", "d", "e", "f"}
    /\ Len(DigitsOf(line)) % 2 = 0

\* the pass of the hex or hex+CRC loop ran no service command, called
\* ser.write and left the line, trimmed, in the list of the mode
SentAndRecorded ==
    /\ probe.out.command = <<>>
    /\ probe.out.calls = 1
    /\ Listed(probe.out.history[probe.arg.mode], Strip(probe.arg.line))

\* C36 as stated: in the hex and hex+CRC loops every non-empty line of hex
\* digits and spaces with an even number of digits is sent and recorded.
C36_EveryValidFrameRecorded ==
    (probe.fn = "send_loop" /\ probe.times = 1 /\ probe.arg.mode # "text"
         /\ ValidHexFrame(probe.arg.line)) => SentAndRecorded

\* C36, amended: in the hex and hex+CRC loops no line of hex digits and spaces
\* with an even number of digits runs a service command, and ser.write is
\* called for every such line; the line is recorded, trimmed, under the mode
\* when it holds at least one digit, and a line of spaces alone is sent as no
\* data bytes and not recorded.
C36_ValidFrameNotIntercepted ==
    (probe.fn = "send_loop" /\ probe.times = 1 /\ probe.arg.mode # "text"
         /\ ValidHexFrame(probe.arg.line)) =>
        IF DigitsOf(probe.arg.line) # <<>>
        THEN /\ SentAndRecorded
             /\ probe.out.history =
                    [empty_history EXCEPT ![probe.arg.mode] = <<Strip(probe.arg.line)>>]
        ELSE /\ probe.out.command = <<>>
             /\ probe.out.calls = 1
             /\ probe.out.history = empty_history

\* C36 witness: " d0" typed in the hex loop was sent as the byte D0 and
\* recorded as "d0".
C36_LeadingDSent ==
    /\ probe.fn = "send_loop"
    /\ probe.times = 1
    /\ probe.arg = [mode |-> "hex", line |-> <<" ", "d", "0">>]
    /\ probe.out.command = <<>>
    /\ probe.out.bytes = <<208>>
    /\ probe.out.history["hex"] = <<<<"d", "0">>>>

\* ------------------------------------------------- C37: delete by number
\* a listing without its entry number k
RemoveAt(entries, k) ==
    SubSeq(entries, 1, k - 1) \o SubSeq(entries, k + 1, Len(entries))

\* C37: a delete with the number k, 1 <= k <= N, of the listing of all modes
\* (text, then hex, then hex_crc, each in stored order) is carried out and
\* leaves the listing without its entry number k: every other entry keeps its
\* mode and its place among the others, the count drops by one, and the file
\* is saved with the new store.
C37_DeleteRemovesShownEntry ==
    [][(/\ hist_op'.op = "delete"
        /\ hist_op'.idx >= 1
        /\ hist_op'.idx <= TotalEntries(COMMAND_HISTORY)) =>
           /\ hist_op'.done
           /\ flatten_history(COMMAND_HISTORY', "all") =
                  RemoveAt(flatten_history(COMMAND_HISTORY, "all"), hist_op'.idx)
           /\ TotalEntries(COMMAND_HISTORY') = TotalEntries(COMMAND_HISTORY) - 1
           /\ HISTORY_FILE' = save_command_history(COMMAND_HISTORY')]_vars

\* entry number 2 of three went: one entry is left before its place and one
\* behind it, under different modes
C37_MiddleEntryDeleted ==
    /\ hist_op.op = "delete"
    /\ hist_op.done
    /\ hist_op.idx = 2
    /\ Len(COMMAND_HISTORY["text"]) = 1
    /\ Len(COMMAND_HISTORY["hex"]) = 0
    /\ Len(COMMAND_HISTORY["hex_crc"]) = 1

\* ------------------------------------------------- C38: sync without VERSION
\* the files hold the version: pyproject.toml, version_info.py and the lines
\* of installer.iss and README.md that carry one
AtVersion(files, version) ==
    /\ files.PYPROJECT.version = version
    /\ files.VERSION_INFO.written /\ files.VERSION_INFO.version = version
    /\ files.INSTALLER_ISS.define => files.INSTALLER_ISS.version = version
    /\ files.README.at = "line" => files.README.version = version

\* C38: `sync` without a VERSION ends with exit code 0, leaves the version of
\* pyproject.toml as it was and brings the derived files to it, and a second
\* run on the same day gives what the first one gave.
C38_SyncWithoutVersionSucceeds ==
    [][\A today \in Dates :
           (RunSyncOn("sync", NoVersion, today)
                /\ SEMVER_RE(read_pyproject(probe.out.files))) =>
               /\ probe'.out.exit = "0"
               /\ AtVersion(probe'.out.files, read_pyproject(probe.out.files))
               /\ sync(probe'.out.files, NoVersion, today) = probe'.out]_vars
====
